---------------------------- MODULE Spec2Model ----------------------------
(***************************************************************************)
(* A model of gomcpgo/url_fetcher: the browser pool of the Chrome engine,  *)
(* the TTL cache and its key, the retry loop of the HTTP engine, the       *)
(* engine dispatch of the fetcher, the fetch_url handler and the response  *)
(* objects it shares with the cache, the content processor and the settle  *)
(* wait of the browser, each as a state machine over shared variables.     *)
(***************************************************************************)
EXTENDS Integers, Sequences, FiniteSets, TLC

(***************************************************************************)
(* Bounds of the model.                                                    *)
(***************************************************************************)
\* config.ChromePoolSize: the number of browser instances (1..10 in config.go).
PoolSize == 2
\* The number of concurrent callers of ChromeEngine.Fetch.
NumCallers == 3
\* config.CacheTTL when caching is enabled, in clock ticks.
CacheTTL == 2
\* The clock of the cache runs from 0 to MaxTime.
MaxTime == 3

Callers == 1..NumCallers
Slots == 0..(PoolSize - 1)
NoSlot == -1

VARIABLES
    \* BrowserPool
    available,   \* the buffered channel pool.available: a queue of slot indices
    closed,      \* pool.available has been closed
    cancelled,   \* the browser contexts have been cancelled (cancelFuncs ran)
    closePc,     \* position of BrowserPool.Close: "idle", "closing", "done"
    \* ChromeEngine.Fetch, one activation per caller
    pc,          \* position of the caller in Fetch
    instanceID,  \* the slot index the caller received
    deadlinePassed, \* config.Timeout has elapsed since the caller entered Fetch
    result,      \* what the last Fetch of the caller returned
    \* Cache
    ttl,         \* Cache.ttl
    entries,     \* Cache.entries: a map from key to CacheEntry
    cleanupRunning, \* the cleanupExpired goroutine was started
    now,         \* time.Now()
    cpc,         \* position of each client in Cache.Get
    getArgs,     \* the (url, engine, format) of the client's Get
    getEntry,    \* the entry the client's Get read from the map (or NoEntry)
    lastGet,     \* what the client's Get returned
    \* history of the cache, read by the claims only
    lastSet,     \* per triple: the latest cacheable Set not followed by a removal
    getSaw,      \* lastSet of the client's triple when its Get read the map
    lastOp,      \* the latest operation that wrote the map, or was a Set
    \* HTTPEngine.Fetch, one activation
    blockLocal,  \* config.BlockLocal
    hpc,         \* position in Fetch: "idle", "attempt", "done"
    hreq,        \* the arguments of the call: fetchURL and maxContentLength
    attempt,     \* the loop variable of the retry loop
    outcomes,    \* how each request attempt made so far ended
    hresp,       \* the response Fetch returned
    herr,        \* whether Fetch returned a non-nil error
    hchain,      \* what the server did in the latest attempt: the redirects it
                 \* chained and its final answer
    hbody,       \* the length of the body of the response the loop kept
    \* URLFetcherMCPServer: the fetch_url handler over Fetcher and Cache
    chromeAvailable,  \* ChromeEngine.isAvailable, probed once at construction
    served,      \* how the latest request was answered: "none", "cache", "fetch"
    sreq,        \* the parameters of the latest request
    sout,        \* what the handler returned for it
    called,      \* the engines whose Fetch ran while it was handled
    contacted,   \* the URLs a request was sent to or the browser navigated to
    srun,        \* what the engine that ran met: the server's or the browser's doing
    \* Processor: one conversion
    ppc,         \* position of the conversion: "start", "done"
    pin,         \* the parsed document and the format asked for
    pout,        \* the content the conversion produced, as a sequence of characters
    \* Cache.generateKey: two applications side by side
    kpc,         \* "start", "done"
    kin,         \* the two (url, engine, format) triples
    kout,        \* the two keys
    \* waitForPageStability, one activation
    wpc,         \* position: "wait" (in the select), "grace" (in the Sleep), "returned"
    wnow,        \* time since the call started, in ticks of the 100ms ticker
    lastNetworkActivity, \* the local of that name: the tick interval of the latest event
    networkIdle, \* the local of that name
    domStable,   \* the local of that name
    wpending,    \* the time the listener is writing to lastNetworkActivity, or NoTime
    wdeadline,   \* what is left of config.Timeout when the wait starts, in ticks
    wcancelled,  \* the context was cancelled
    werr,        \* what the call returned: "none" so far, "nil", "ctx"
    widle,       \* history: when the loop declared the page idle, and since when
                 \* it had seen no activity
    \* fetchURL over the response objects it points to, one activation per handler
    objs,        \* the FetchResponse objects alive, by address
    held,        \* per cache key: the address in CacheEntry.Response, or NoAddr
    apc,         \* position of the handler in fetchURL
    aref,        \* the pointer the handler works on (cached or response), or NoAddr
    areq,        \* the engine asked for
    aerr         \* whether Fetcher.Fetch is returning an error

poolVars == <<available, closed, cancelled, closePc, pc, instanceID, deadlinePassed, result>>

cacheVars == <<ttl, entries, cleanupRunning, now, cpc, getArgs, getEntry, lastGet,
               lastSet, getSaw, lastOp>>

httpVars == <<blockLocal, hpc, hreq, attempt, outcomes, hresp, herr, hchain, hbody>>

serviceVars == <<chromeAvailable, served, sreq, sout, called, contacted, srun>>

processorVars == <<ppc, pin, pout>>

keyVars == <<kpc, kin, kout>>

waitVars == <<wpc, wnow, lastNetworkActivity, networkIdle, domStable, wpending,
              wdeadline, wcancelled, werr, widle>>

handlerVars == <<objs, held, apc, aref, areq, aerr>>

vars == <<poolVars, cacheVars, httpVars, serviceVars, processorVars, keyVars, waitVars,
          handlerVars>>

\* What an action of one component leaves alone.
notPool == <<cacheVars, httpVars, serviceVars, processorVars, keyVars, waitVars, handlerVars>>
notCache == <<poolVars, httpVars, serviceVars, processorVars, keyVars, waitVars, handlerVars>>
notHTTP == <<poolVars, cacheVars, serviceVars, processorVars, keyVars, waitVars, handlerVars>>
notService == <<poolVars, httpVars, processorVars, keyVars, waitVars, handlerVars>>
notProcessor == <<poolVars, cacheVars, httpVars, serviceVars, keyVars, waitVars, handlerVars>>
notKey == <<poolVars, cacheVars, httpVars, serviceVars, processorVars, waitVars, handlerVars>>
notWait == <<poolVars, cacheVars, httpVars, serviceVars, processorVars, keyVars, handlerVars>>
notHandler == <<poolVars, cacheVars, httpVars, serviceVars, processorVars, keyVars, waitVars>>

(***************************************************************************)
(* BrowserPool and ChromeEngine.Fetch                                      *)
(***************************************************************************)

\* newBrowserPool: a channel of capacity size, filled with 0..size-1 in order.
RECURSIVE FillPool(_)
FillPool(n) == IF n = 0 THEN <<>> ELSE Append(FillPool(n - 1), n - 1)

newBrowserPool == FillPool(PoolSize)

InitPool ==
    /\ available = newBrowserPool
    /\ closed = FALSE
    /\ cancelled = FALSE
    /\ closePc = "idle"
    /\ pc = [c \in Callers |-> "idle"]
    /\ instanceID = [c \in Callers |-> NoSlot]
    /\ deadlinePassed = [c \in Callers |-> FALSE]
    /\ result = [c \in Callers |-> "none"]

\* A receive from the channel can proceed: a token is buffered, or the channel
\* is closed (a receive from a closed, drained channel yields the zero value).
CanReceive == Len(available) > 0 \/ closed

\* Mutant of ReceivedValue: every receive yields the first index.
ReceivedValueFirst == 1 - 1

\* The value a receive yields.
ReceivedValue == IF Len(available) > 0 THEN Head(available) ELSE 0

\* Mutant of AfterReceive: the receive reads the head token but leaves it queued.
AfterReceivePeek == available

\* The buffer after a receive.
AfterReceive == IF Len(available) > 0 THEN Tail(available) ELSE available

\* Fetch is entered: startTime is taken and isAvailable is checked (the pool
\* exists only when Chrome is available).
FetchCall(c) ==
    /\ pc[c] = "idle"
    /\ pc' = [pc EXCEPT ![c] = "acquire"]
    /\ UNCHANGED <<available, closed, cancelled, closePc, instanceID,
                   deadlinePassed, result>>
    /\ UNCHANGED notPool

\* instanceID := <-e.pool.available, then the tab context and the timeout
\* context are created: the deadline starts only now.
Acquire(c) ==
    /\ pc[c] = "acquire"
    /\ CanReceive
    /\ instanceID' = [instanceID EXCEPT ![c] = ReceivedValue]
    /\ available' = AfterReceive
    /\ pc' = [pc EXCEPT ![c] = "navigate"]
    /\ UNCHANGED <<closed, cancelled, closePc, deadlinePassed, result>>
    /\ UNCHANGED notPool

\* chromedp.Run returns: nil, a navigation error, or the context's error
\* (canceled once the pool cancelled the browser context; deadline exceeded
\* when timeoutCtx expired, which is no earlier than config.Timeout after the
\* caller entered Fetch).
NavOutcomes(c) ==
    IF cancelled THEN {"error"}
    ELSE IF deadlinePassed[c] THEN {"ok", "error", "timeout"}
    ELSE {"ok", "error"}

Navigate(c) ==
    /\ pc[c] = "navigate"
    /\ \E o \in NavOutcomes(c) : result' = [result EXCEPT ![c] = o]
    /\ pc' = [pc EXCEPT ![c] = "release"]
    /\ deadlinePassed' = [deadlinePassed EXCEPT ![c] = FALSE]
    /\ UNCHANGED <<available, closed, cancelled, closePc, instanceID>>
    /\ UNCHANGED notPool

\* Mutant of DeferredRelease: the token goes back only when chromedp.Run
\* succeeded; the error return leaves without releasing.
DeferredReleaseOnSuccess(c) ==
    /\ pc[c] = "release"
    /\ IF closed
       THEN /\ pc' = [pc EXCEPT ![c] = "panicked"]
            /\ UNCHANGED available
       ELSE /\ Len(available) < PoolSize
            /\ available' = IF result[c] = "ok"
                            THEN Append(available, instanceID[c])
                            ELSE available
            /\ pc' = [pc EXCEPT ![c] = "done"]
    /\ instanceID' = [instanceID EXCEPT ![c] = NoSlot]
    /\ UNCHANGED <<closed, cancelled, closePc, deadlinePassed, result>>
    /\ UNCHANGED notPool

\* The deferred e.pool.available <- instanceID, run on every return of Fetch.
\* A send on a closed channel panics. (instanceID and deadlinePassed are
\* locals of the activation: they are reset once nothing reads them.)
DeferredRelease(c) ==
    /\ pc[c] = "release"
    /\ IF closed
       THEN /\ pc' = [pc EXCEPT ![c] = "panicked"]
            /\ UNCHANGED available
       ELSE /\ Len(available) < PoolSize
            /\ available' = Append(available, instanceID[c])
            /\ pc' = [pc EXCEPT ![c] = "done"]
    /\ instanceID' = [instanceID EXCEPT ![c] = NoSlot]
    /\ UNCHANGED <<closed, cancelled, closePc, deadlinePassed, result>>
    /\ UNCHANGED notPool

\* The caller has its response and may call Fetch again.
FetchReturn(c) ==
    /\ pc[c] = "done"
    /\ pc' = [pc EXCEPT ![c] = "idle"]
    /\ result' = [result EXCEPT ![c] = "none"]
    /\ UNCHANGED <<available, closed, cancelled, closePc, instanceID, deadlinePassed>>
    /\ UNCHANGED notPool

\* BrowserPool.Close: close(p.available) ...
Close ==
    /\ closePc = "idle"
    /\ closed' = TRUE
    /\ closePc' = "closing"
    /\ UNCHANGED <<available, cancelled, pc, instanceID, deadlinePassed, result>>
    /\ UNCHANGED notPool

\* ... then every cancel function is called.
CloseCancel ==
    /\ closePc = "closing"
    /\ cancelled' = TRUE
    /\ closePc' = "done"
    /\ UNCHANGED <<available, closed, pc, instanceID, deadlinePassed, result>>
    /\ UNCHANGED notPool

\* config.Timeout elapses for a caller that is inside Fetch. Nothing in Fetch
\* observes this before the slot is acquired: timeoutCtx is created afterwards.
DeadlineElapse(c) ==
    /\ pc[c] \in {"acquire", "navigate"}
    /\ ~deadlinePassed[c]
    /\ deadlinePassed' = [deadlinePassed EXCEPT ![c] = TRUE]
    /\ UNCHANGED <<available, closed, cancelled, closePc, pc, instanceID, result>>
    /\ UNCHANGED notPool

\* The steps of one activation of ChromeEngine.Fetch.
FetchStep(c) ==
    \/ FetchCall(c)
    \/ Acquire(c)
    \/ Navigate(c)
    \/ DeferredRelease(c)
    \/ FetchReturn(c)

NextPool ==
    \/ \E c \in Callers : FetchStep(c)
    \/ \E c \in Callers : DeadlineElapse(c)
    \/ Close
    \/ CloseCancel

(***************************************************************************)
(* Cache                                                                   *)
(***************************************************************************)

\* The goroutines that call Cache.Get concurrently.
Clients == {"g1", "g2"}

\* The requests the cache is used with.
CacheTriples == {<<"a", "http", "text">>, <<"a", "chrome", "text">>}

\* The responses handed to Set: a status code and a content.
Responses ==
    { [StatusCode |-> 0, Content |-> "err"],
      [StatusCode |-> 200, Content |-> "p"],
      [StatusCode |-> 200, Content |-> "q"],
      [StatusCode |-> 400, Content |-> "err"] }

NoEntry == [absent |-> TRUE]
NoResult == [none |-> TRUE]
Miss == [found |-> FALSE]
Hit(response) == [found |-> TRUE, response |-> response]

\* Cache.generateKey
generateKey(url, engine, format) == url \o "|" \o engine \o "|" \o format

KeyOf(t) == generateKey(t[1], t[2], t[3])

\* Mutant of MapDelete: the key stays.
MapDeleteNothing(m, key) == m

\* delete(c.entries, key)
MapDelete(m, key) == [k \in (DOMAIN m) \ {key} |-> m[k]]

\* c.entries[key] = entry
MapStore(m, key, entry) ==
    [k \in (DOMAIN m) \cup {key} |-> IF k = key THEN entry ELSE m[k]]

EmptyMap == [k \in {} |-> NoEntry]

\* Size
Size == Cardinality(DOMAIN entries)

\* NewCache(ttl): an empty map; the cleanup goroutine starts only if ttl > 0.
NewCache(t) ==
    /\ ttl = t
    /\ entries = EmptyMap
    /\ cleanupRunning = (t > 0)

InitCacheWith(ttls) ==
    /\ \E t \in ttls : NewCache(t)
    /\ now = 0
    /\ cpc = [cl \in Clients |-> "idle"]
    /\ getArgs = [cl \in Clients |-> <<>>]
    /\ getEntry = [cl \in Clients |-> NoEntry]
    /\ lastGet = [cl \in Clients |-> NoResult]
    /\ lastSet = [t \in CacheTriples |-> NoEntry]
    /\ getSaw = [cl \in Clients |-> NoEntry]
    /\ lastOp = "other"

\* What the claims call a cacheable response.
Cacheable(response) == response.StatusCode # 0 /\ response.StatusCode < 400

\* Mutant of IsErrorResponse: the bound 400 itself is let through.
IsErrorResponseAbove400(response) == response.StatusCode = 0 \/ response.StatusCode > 400

\* The test of Set that refuses a response ("Don't cache error responses").
IsErrorResponse(response) == response.StatusCode = 0 \/ response.StatusCode >= 400

\* Mutant of CacheDisabled: the ttl test is missing.
CacheDisabledNever == FALSE

\* The test of Get and Set that disables the cache.
CacheDisabled == ttl = 0

\* Mutant of NewExpiresAt: the ttl is not added.
NewExpiresAtNoTTL == now

\* entry.ExpiresAt of a new entry: time.Now().Add(c.ttl)
NewExpiresAt == now + ttl

\* Mutant of Expired: no entry ever counts as expired.
ExpiredNever(entry) == FALSE

\* time.Now().After(entry.ExpiresAt)
Expired(entry) == now > entry.ExpiresAt

\* The map after Cache.Set(url, engine, format, response) on the map m.
AfterSet(m, key, response) ==
    IF CacheDisabled \/ IsErrorResponse(response)
    THEN m
    ELSE MapStore(m, key, [Response |-> response, ExpiresAt |-> NewExpiresAt])

\* Cache.Set
Set(t, response) ==
    /\ entries' = AfterSet(entries, KeyOf(t), response)
    /\ lastSet' = IF ttl > 0 /\ Cacheable(response)
                  THEN [lastSet EXCEPT ![t] = [at |-> now, response |-> response]]
                  ELSE lastSet
    /\ lastOp' = IF Cacheable(response) THEN "SetCacheable" ELSE "SetError"
    /\ UNCHANGED <<ttl, cleanupRunning, now, cpc, getArgs, getEntry, lastGet, getSaw>>
    /\ UNCHANGED notCache

\* Cache.Delete
Delete(t) ==
    /\ entries' = MapDelete(entries, KeyOf(t))
    /\ lastSet' = [lastSet EXCEPT ![t] = NoEntry]
    /\ lastOp' = "other"
    /\ UNCHANGED <<ttl, cleanupRunning, now, cpc, getArgs, getEntry, lastGet, getSaw>>
    /\ UNCHANGED notCache

\* Cache.Clear
Clear ==
    /\ entries' = EmptyMap
    /\ lastSet' = [t \in CacheTriples |-> NoEntry]
    /\ lastOp' = "other"
    /\ UNCHANGED <<ttl, cleanupRunning, now, cpc, getArgs, getEntry, lastGet, getSaw>>
    /\ UNCHANGED notCache

\* Cache.Get, first part: the ttl test, then the read of the map under RLock.
\* (getArgs and getEntry are locals of the call: they are reset once nothing
\* reads them.)
GetLookup(cl, t) ==
    /\ cpc[cl] = "idle"
    /\ getSaw' = [getSaw EXCEPT ![cl] = lastSet[t]]
    /\ IF CacheDisabled \/ KeyOf(t) \notin DOMAIN entries
       THEN /\ lastGet' = [lastGet EXCEPT ![cl] = Miss]
            /\ cpc' = [cpc EXCEPT ![cl] = "got"]
            /\ UNCHANGED <<getArgs, getEntry>>
       ELSE /\ getArgs' = [getArgs EXCEPT ![cl] = t]
            /\ getEntry' = [getEntry EXCEPT ![cl] = entries[KeyOf(t)]]
            /\ cpc' = [cpc EXCEPT ![cl] = "check"]
            /\ UNCHANGED lastGet
    /\ UNCHANGED <<ttl, entries, cleanupRunning, now, lastSet, lastOp>>
    /\ UNCHANGED notCache

\* Cache.Get, second part: the expiry test on the entry that was read.
GetCheck(cl) ==
    /\ cpc[cl] = "check"
    /\ IF Expired(getEntry[cl])
       THEN /\ cpc' = [cpc EXCEPT ![cl] = "evict"]
            /\ UNCHANGED <<lastGet, getArgs>>
       ELSE /\ lastGet' = [lastGet EXCEPT ![cl] = Hit(getEntry[cl].Response)]
            /\ getArgs' = [getArgs EXCEPT ![cl] = <<>>]
            /\ cpc' = [cpc EXCEPT ![cl] = "got"]
    /\ getEntry' = [getEntry EXCEPT ![cl] = NoEntry]
    /\ UNCHANGED <<ttl, entries, cleanupRunning, now, lastSet, getSaw, lastOp>>
    /\ UNCHANGED notCache

\* Cache.Get, third part: c.Delete(url, engine, format), then the miss.
GetEvict(cl) ==
    /\ cpc[cl] = "evict"
    /\ entries' = MapDelete(entries, KeyOf(getArgs[cl]))
    /\ lastSet' = [lastSet EXCEPT ![getArgs[cl]] = NoEntry]
    /\ lastGet' = [lastGet EXCEPT ![cl] = Miss]
    /\ getArgs' = [getArgs EXCEPT ![cl] = <<>>]
    /\ cpc' = [cpc EXCEPT ![cl] = "got"]
    /\ lastOp' = "GetEvict"
    /\ UNCHANGED <<ttl, cleanupRunning, now, getEntry, getSaw>>
    /\ UNCHANGED notCache

\* The caller of Get has its answer.
GetReturn(cl) ==
    /\ cpc[cl] = "got"
    /\ cpc' = [cpc EXCEPT ![cl] = "idle"]
    /\ lastGet' = [lastGet EXCEPT ![cl] = NoResult]
    /\ getSaw' = [getSaw EXCEPT ![cl] = NoEntry]
    /\ UNCHANGED <<ttl, entries, cleanupRunning, now, getArgs, getEntry, lastSet, lastOp>>
    /\ UNCHANGED notCache

\* One pass of cleanupExpired, under the exclusive lock.
Sweep ==
    /\ cleanupRunning
    /\ entries' = [k \in {k \in DOMAIN entries : ~Expired(entries[k])} |-> entries[k]]
    /\ lastOp' = "other"
    /\ UNCHANGED <<ttl, cleanupRunning, now, cpc, getArgs, getEntry, lastGet,
                   lastSet, getSaw>>
    /\ UNCHANGED notCache

\* The clock advances.
Tick ==
    /\ now < MaxTime
    /\ now' = now + 1
    /\ UNCHANGED <<ttl, entries, cleanupRunning, cpc, getArgs, getEntry, lastGet,
                   lastSet, getSaw, lastOp>>
    /\ UNCHANGED notCache

NextCache ==
    \/ \E t \in CacheTriples, r \in Responses : Set(t, r)
    \/ \E t \in CacheTriples : Delete(t)
    \/ Clear
    \/ \E cl \in Clients, t \in CacheTriples : GetLookup(cl, t)
    \/ \E cl \in Clients : GetCheck(cl)
    \/ \E cl \in Clients : GetEvict(cl)
    \/ \E cl \in Clients : GetReturn(cl)
    \/ Sweep
    \/ Tick

(***************************************************************************)
(* HTTPEngine                                                              *)
(***************************************************************************)

EngineHTTP == "http"
EngineChrome == "chrome"

\* The URLs Fetch is called with, and what url.Parse makes of each: Scheme,
\* and Hostname() (the host without port and without the brackets of an IPv6
\* literal).
URLTable ==
    { [raw |-> "https://example.com", Scheme |-> "https", Host |-> "example.com"],
      [raw |-> "http://intranet.example", Scheme |-> "http", Host |-> "intranet.example"],
      [raw |-> "http://no-such-host.invalid", Scheme |-> "http", Host |-> "no-such-host.invalid"],
      [raw |-> "http://localhost", Scheme |-> "http", Host |-> "localhost"],
      [raw |-> "http://127.0.0.1", Scheme |-> "http", Host |-> "127.0.0.1"],
      [raw |-> "http://127.8.9.1", Scheme |-> "http", Host |-> "127.8.9.1"],
      [raw |-> "http://10.1.2.3", Scheme |-> "http", Host |-> "10.1.2.3"],
      [raw |-> "http://172.31.255.1", Scheme |-> "http", Host |-> "172.31.255.1"],
      [raw |-> "http://172.32.0.1", Scheme |-> "http", Host |-> "172.32.0.1"],
      [raw |-> "http://192.168.1.1", Scheme |-> "http", Host |-> "192.168.1.1"],
      [raw |-> "http://169.254.169.254", Scheme |-> "http", Host |-> "169.254.169.254"],
      [raw |-> "http://8.8.8.8", Scheme |-> "http", Host |-> "8.8.8.8"],
      [raw |-> "https://[::1]", Scheme |-> "https", Host |-> "::1"],
      [raw |-> "http://[fd12::1]", Scheme |-> "http", Host |-> "fd12::1"],
      [raw |-> "http://[febf::1]", Scheme |-> "http", Host |-> "febf::1"],
      [raw |-> "http://[fec0::1]", Scheme |-> "http", Host |-> "fec0::1"],
      [raw |-> "ftp://example.com", Scheme |-> "ftp", Host |-> "example.com"],
      [raw |-> "file:///etc/passwd", Scheme |-> "file", Host |-> ""],
      [raw |-> "example.com/page", Scheme |-> "", Host |-> ""] }

HttpURLs == {r.raw : r \in URLTable}

\* url.Parse
Parse(raw) == CHOOSE r \in URLTable : r.raw = raw

\* An IP address is the sequence of its bytes: 4 for IPv4 (ip.To4()), 16 for
\* IPv6. NoIP is the nil net.IP.
NoIP == <<>>
IPv6(b1, b2, last) == <<b1, b2, 0, 0, 0, 0, 0, 0, 0, 0, 0, 0, 0, 0, 0, last>>

\* net.ParseIP, on the hosts of URLTable: nil for a host name.
ParseIP(host) ==
    CASE host = "127.0.0.1" -> <<127, 0, 0, 1>>
      [] host = "127.8.9.1" -> <<127, 8, 9, 1>>
      [] host = "10.1.2.3" -> <<10, 1, 2, 3>>
      [] host = "172.31.255.1" -> <<172, 31, 255, 1>>
      [] host = "172.32.0.1" -> <<172, 32, 0, 1>>
      [] host = "192.168.1.1" -> <<192, 168, 1, 1>>
      [] host = "169.254.169.254" -> <<169, 254, 169, 254>>
      [] host = "8.8.8.8" -> <<8, 8, 8, 8>>
      [] host = "::1" -> IPv6(0, 0, 1)
      [] host = "fd12::1" -> IPv6(253, 18, 1)
      [] host = "febf::1" -> IPv6(254, 191, 1)
      [] host = "fec0::1" -> IPv6(254, 192, 1)
      [] OTHER -> NoIP

\* net.LookupIP, on the host names of URLTable: the addresses the resolver
\* returns, none when the lookup fails.
LookupIP(host) ==
    CASE host = "example.com" -> << <<93, 184, 216, 34>> >>
      [] host = "intranet.example" -> << <<10, 0, 0, 5>> >>
      [] OTHER -> <<>>

\* The values of maxContentLength and the body lengths a server sends.
MaxBodyLen == 2
ContentLengths == 1..MaxBodyLen
BodyLengths == 0..MaxBodyLen

\* How one e.client.Do(req) ends: err # nil, or a response with a status.
ErrTransport == "failed to fetch URL"
TransportError == [err |-> TRUE, StatusCode |-> 0]
Responded(status) == [err |-> FALSE, StatusCode |-> status]
AttemptOutcomes == {TransportError} \cup {Responded(s) : s \in {200, 404, 500}}

NoRequest == [none |-> TRUE]
NoResponse == [none |-> TRUE]

\* types.ErrorResponse: status code 0 and the error's text as content.
ErrorResponse(url, engine, message) ==
    [URL |-> url, Engine |-> engine, StatusCode |-> 0, Content |-> [text |-> message],
     Format |-> "text", Warnings |-> <<>>, ChromeAvailable |-> FALSE]

\* The errors of HTTPEngine.Fetch, by their text.
ErrUnsupportedScheme == "unsupported scheme"
ErrLocalBlocked == "access to local/private IP addresses is blocked"
ErrServer == "server error after 2 retries. try using engine='chrome'"
ErrClient == "client error"
ErrTooLarge == "content exceeds maximum length"

\* The byte b with only its n leading bits kept (b & mask).
MaskByte(b, n) == (b \div (2 ^ (8 - n))) * (2 ^ (8 - n))

\* The number of mask bits that fall into byte i of a /ones network.
MaskBits(ones, i) ==
    IF ones >= 8 * i THEN 8 ELSE IF ones <= 8 * (i - 1) THEN 0 ELSE ones - 8 * (i - 1)

\* (*net.IPNet).Contains for the network base/ones: false when the address
\* and the network are not of the same family.
Contains(base, ones, ip) ==
    /\ Len(ip) = Len(base)
    /\ \A i \in 1..Len(ip) :
          MaskByte(ip[i], MaskBits(ones, i)) = MaskByte(base[i], MaskBits(ones, i))

\* privateRanges
privateRanges ==
    << [base |-> <<10, 0, 0, 0>>, ones |-> 8],
       [base |-> <<172, 16, 0, 0>>, ones |-> 12],
       [base |-> <<192, 168, 0, 0>>, ones |-> 16],
       [base |-> <<169, 254, 0, 0>>, ones |-> 16],
       [base |-> IPv6(252, 0, 0), ones |-> 7],
       [base |-> IPv6(254, 128, 0), ones |-> 10] >>

\* net.IP.IsLoopback
IsLoopback(ip) ==
    IF Len(ip) = 4 THEN ip[1] = 127 ELSE ip = IPv6(0, 0, 1)

\* net.IP.IsPrivate
IsPrivate(ip) ==
    IF Len(ip) = 4
    THEN \/ ip[1] = 10
         \/ ip[1] = 172 /\ MaskByte(ip[2], 4) = 16
         \/ ip[1] = 192 /\ ip[2] = 168
    ELSE MaskByte(ip[1], 7) = 252

\* net.IP.IsLinkLocalUnicast
IsLinkLocalUnicast(ip) ==
    IF Len(ip) = 4
    THEN ip[1] = 169 /\ ip[2] = 254
    ELSE ip[1] = 254 /\ MaskByte(ip[2], 2) = 128

\* Mutant of isLocalOrPrivateIP: only the three literal names are refused.
isLocalOrPrivateIPNamesOnly(host) == host \in {"localhost", "127.0.0.1", "::1"}

\* isLocalOrPrivateIP: the literal names, then the address the host parses
\* or resolves to (the first one the resolver returns).
isLocalOrPrivateIP(host) ==
    IF host \in {"localhost", "127.0.0.1", "::1"} THEN TRUE
    ELSE LET parsed == ParseIP(host)
             ips == LookupIP(host)
         IN  IF parsed = NoIP /\ Len(ips) = 0 THEN FALSE
             ELSE LET ip == IF parsed # NoIP THEN parsed ELSE ips[1]
                  IN  \/ \E i \in 1..Len(privateRanges) :
                            Contains(privateRanges[i].base, privateRanges[i].ones, ip)
                      \/ IsLoopback(ip)
                      \/ IsPrivate(ip)
                      \/ IsLinkLocalUnicast(ip)

\* Mutant of SchemeSupported: a URL without a scheme is let through.
SchemeSupportedOrNone(scheme) == scheme = "http" \/ scheme = "https" \/ scheme = ""

\* The scheme test of validateURL.
SchemeSupported(scheme) == scheme = "http" \/ scheme = "https"

\* HTTPEngine.validateURL: the error, or "" when the URL is admitted.
validateURL(fetchURL) ==
    LET u == Parse(fetchURL) IN
    IF ~SchemeSupported(u.Scheme) THEN ErrUnsupportedScheme
    ELSE IF blockLocal /\ isLocalOrPrivateIP(u.Host) THEN ErrLocalBlocked
    ELSE ""

\* Mutant of maxRetries: one retry only.
maxRetriesOne == 2 - 1

\* maxRetries := 2
maxRetries == 2

\* Mutant of RetryOnStatus: client errors are retried too.
RetryOnStatusFrom400(status, att) == status >= 400 /\ att < maxRetries

\* if resp.StatusCode >= 500 && attempt < maxRetries: close the body and retry.
RetryOnStatus(status, att) == status >= 500 /\ att < maxRetries

\* One pass of the retry loop at loop variable att, the request ending in o:
\* "continue" (another attempt), "return" (the transport error is returned) or
\* "break" (the response is kept).
LoopPass(att, o) ==
    IF o.err
    THEN IF att = maxRetries THEN "return" ELSE "continue"
    ELSE IF RetryOnStatus(o.StatusCode, att) THEN "continue" ELSE "break"

\* The redirects a server may chain before its final answer.
MaxHops == 6

\* The number of requests made (len(via)) from which CheckRedirect refuses
\* the next one.
RedirectLimit == 5

\* CheckRedirect, on the number via of requests made so far: TRUE when the
\* upcoming request is refused with "too many redirects".
CheckRedirect(via) == via >= RedirectLimit

\* client.Do following redirects: via requests were made, the server still
\* answers the next hops requests with a redirect. TRUE when the final
\* target is reached, FALSE when CheckRedirect stopped the chain.
RECURSIVE FollowRedirects(_, _)
FollowRedirects(via, hops) ==
    IF hops = 0 THEN TRUE
    ELSE IF CheckRedirect(via) THEN FALSE
    ELSE FollowRedirects(via + 1, hops - 1)

\* e.client.Do(req) against a server that chains hops redirects and then
\* answers final: the too-many-redirects error is an error of Do.
clientDo(hops, final) ==
    IF FollowRedirects(1, hops) THEN final ELSE TransportError

NoChain == [hops |-> 0, final |-> TransportError]

\* A slice expression x[:n] with a negative n panics at run time; the
\* goroutine's call does not return.
SlicePanics(n) == n < 0
Panic == [panic |-> TRUE, resp |-> NoResponse, err |-> TRUE]
Panicked(x) == "panic" \in DOMAIN x

\* Mutant of readResponseBody: the body is read whole and never refused.
readResponseBodyUnlimited(bodyLen, maxLen) == [len |-> bodyLen, err |-> FALSE]

\* readResponseBody: at most maxContentLength + 1 bytes are read; when more
\* than maxContentLength were read, the first maxContentLength bytes are
\* returned together with an error.
readResponseBody(bodyLen, maxLen) ==
    LET limit == IF maxLen + 1 > 0 THEN maxLen + 1 ELSE 0
        read == IF bodyLen > limit THEN limit ELSE bodyLen
    IN  IF read > maxLen
        THEN IF SlicePanics(maxLen) THEN Panic
             ELSE [len |-> maxLen, err |-> TRUE]
        ELSE [len |-> read, err |-> FALSE]

\* After the loop: the response of Fetch for the kept status and the body.
\* When readResponseBody fails, Fetch returns the error response made from
\* the error; the bytes readResponseBody returned are dropped.
AfterLoop(url, maxLen, status, bodyLen) ==
    IF status >= 500 THEN [resp |-> ErrorResponse(url, EngineHTTP, ErrServer), err |-> TRUE]
    ELSE IF status >= 400 THEN [resp |-> ErrorResponse(url, EngineHTTP, ErrClient), err |-> TRUE]
    ELSE IF Panicked(readResponseBody(bodyLen, maxLen)) THEN Panic
    ELSE IF readResponseBody(bodyLen, maxLen).err
    THEN [resp |-> ErrorResponse(url, EngineHTTP, ErrTooLarge), err |-> TRUE]
    ELSE [resp |-> [URL |-> url, Engine |-> EngineHTTP, StatusCode |-> status,
                    Content |-> [raw |-> readResponseBody(bodyLen, maxLen).len],
                    Format |-> "html", Warnings |-> <<>>, ChromeAvailable |-> FALSE],
          err |-> FALSE]

InitHTTPWith(blocks) ==
    /\ blockLocal \in blocks
    /\ hpc = "idle"
    /\ hreq = NoRequest
    /\ attempt = 0
    /\ outcomes = <<>>
    /\ hresp = NoResponse
    /\ herr = FALSE
    /\ hchain = NoChain
    /\ hbody = 0

\* Fetch is entered: validateURL, then the request is built.
HTTPCall(url, maxLen) ==
    /\ hpc = "idle"
    /\ hreq' = [url |-> url, maxLen |-> maxLen]
    /\ attempt' = 0
    /\ outcomes' = <<>>
    /\ IF validateURL(url) # ""
       THEN /\ hresp' = ErrorResponse(url, EngineHTTP, validateURL(url))
            /\ herr' = TRUE
            /\ hpc' = "done"
       ELSE /\ hresp' = NoResponse
            /\ herr' = FALSE
            /\ hpc' = "attempt"
    /\ UNCHANGED <<blockLocal, hchain, hbody>>
    /\ UNCHANGED notHTTP

\* One pass of the retry loop (after the delay of attempt seconds when
\* attempt > 0): the server chains hops redirects and then answers final;
\* on "break" the body of length bodyLen is read and Fetch returns.
HTTPAttempt(final, hops, bodyLen) ==
    /\ hpc = "attempt"
    /\ hchain' = [hops |-> hops, final |-> final]
    /\ \E o \in {clientDo(hops, final)} :
         /\ outcomes' = Append(outcomes, o)
         /\ CASE LoopPass(attempt, o) = "continue" ->
                   /\ attempt' = attempt + 1
                   /\ UNCHANGED <<hpc, hresp, herr, hbody>>
              [] LoopPass(attempt, o) = "return" ->
                   /\ hresp' = ErrorResponse(hreq.url, EngineHTTP, ErrTransport)
                   /\ herr' = TRUE
                   /\ hpc' = "done"
                   /\ UNCHANGED <<attempt, hbody>>
              [] LoopPass(attempt, o) = "break" ->
                   /\ hresp' = AfterLoop(hreq.url, hreq.maxLen, o.StatusCode, bodyLen).resp
                   /\ herr' = AfterLoop(hreq.url, hreq.maxLen, o.StatusCode, bodyLen).err
                   /\ hbody' = bodyLen
                   /\ hpc' = "done"
                   /\ UNCHANGED attempt
    /\ UNCHANGED <<blockLocal, hreq>>
    /\ UNCHANGED notHTTP

\* The caller has the response and the error.
HTTPReturn ==
    /\ hpc = "done"
    /\ hpc' = "idle"
    /\ hreq' = NoRequest
    /\ attempt' = 0
    /\ outcomes' = <<>>
    /\ hresp' = NoResponse
    /\ herr' = FALSE
    /\ hchain' = NoChain
    /\ hbody' = 0
    /\ UNCHANGED blockLocal
    /\ UNCHANGED notHTTP

NextHTTP ==
    \/ \E url \in HttpURLs, maxLen \in ContentLengths : HTTPCall(url, maxLen)
    \/ \E final \in AttemptOutcomes, hops \in 0..MaxHops, bodyLen \in BodyLengths :
          HTTPAttempt(final, hops, bodyLen)
    \/ HTTPReturn

(***************************************************************************)
(* Fetcher, Processor and the fetch_url handler                            *)
(***************************************************************************)

DefaultEngine == EngineHTTP
DefaultFormat == "text"
DefaultMaxContentLength == 10 * 1024 * 1024

\* The parameters fetch_url is called with.
ServiceURLs == {"", "https://example.com", "http://169.254.169.254"}
ServiceEngines == {"", "chrome", "Chrome", "curl"}
ServiceFormats == {"", "text", "pdf"}
ServiceMaxLengths == {-1, 0, 1}
Params ==
    [URL : {"https://example.com"}, Engine : ServiceEngines, Format : {""},
     MaxContentLength : {0}]
      \cup [URL : {"https://example.com"}, Engine : {"chrome"}, Format : {"pdf"},
            MaxContentLength : {0}]
      \cup [URL : {"https://example.com"}, Engine : {""}, Format : {"text"},
            MaxContentLength : {1}]
      \cup [URL : {"https://example.com"}, Engine : {"chrome"}, Format : {""},
            MaxContentLength : {1}]
      \cup [URL : {"https://example.com"}, Engine : {"", "chrome"}, Format : {""},
            MaxContentLength : {-1}]
      \cup [URL : {"", "http://169.254.169.254"}, Engine : {"", "chrome"}, Format : {""},
            MaxContentLength : {0}]

\* What the server answers to the attempts of one HTTPEngine.Fetch.
ServerAnswers ==
    {[i \in 1..(maxRetries + 1) |-> o] : o \in AttemptOutcomes}
        \cup {[i \in 1..(maxRetries + 1) |-> IF i = 1 THEN Responded(500) ELSE Responded(200)]}

\* What the server does during one HTTPEngine.Fetch: its answers and the
\* length of the body it sends.
ServerRuns == [answers : ServerAnswers, bodyLen : 1..MaxBodyLen]

\* How chromedp.Run ends: an error, or a document with a status and a length.
ChromeRuns ==
    { [err |-> TRUE, StatusCode |-> 0, htmlLen |-> 0],
      [err |-> FALSE, StatusCode |-> 200, htmlLen |-> MaxBodyLen],
      [err |-> FALSE, StatusCode |-> 404, htmlLen |-> 1] }

NoRun == [err |-> FALSE]

ErrChromeRun == "chromedp: navigation failed"
ErrChromeUnavailable == "Chrome is not available on this system"
ErrURLRequired == "url is required"
WarnFallback == "Chrome not available, falling back to HTTP engine"
WarnProcessing == "Content processing error: unsupported format"

\* strings.ToLower, on the engine names of ServiceEngines.
ToLower(str) ==
    CASE str = "Chrome" -> "chrome"
      [] OTHER -> str

\* The retry loop of HTTPEngine.Fetch from loop variable att on, the server
\* answering answers[att + 1] to that attempt.
RECURSIVE RetryLoop(_, _, _, _, _)
RetryLoop(url, maxLen, answers, bodyLen, att) ==
    LET o == answers[att + 1] IN
    CASE LoopPass(att, o) = "continue" -> RetryLoop(url, maxLen, answers, bodyLen, att + 1)
      [] LoopPass(att, o) = "return" ->
            [resp |-> ErrorResponse(url, EngineHTTP, ErrTransport), err |-> TRUE]
      [] LoopPass(att, o) = "break" -> AfterLoop(url, maxLen, o.StatusCode, bodyLen)

\* HTTPEngine.Fetch as a function of what the server does.
HTTPFetch(url, maxLen, answers, bodyLen) ==
    IF validateURL(url) # ""
    THEN [resp |-> ErrorResponse(url, EngineHTTP, validateURL(url)), err |-> TRUE]
    ELSE RetryLoop(url, maxLen, answers, bodyLen, 0)

\* Mutant of Truncate: the document is never cut.
TruncateNever(htmlLen, maxContentLength) == htmlLen

\* if len(htmlContent) > maxContentLength { htmlContent = htmlContent[:maxContentLength] }
Truncate(htmlLen, maxContentLength) ==
    IF htmlLen > maxContentLength THEN maxContentLength ELSE htmlLen

\* ChromeEngine.Fetch as a function of what the browser does, a slot of the
\* pool being free: the content is cut to maxContentLength.
ChromeFetch(url, maxLen, run) ==
    IF ~chromeAvailable THEN [resp |-> NoResponse, err |-> TRUE]
    ELSE IF run.err
    THEN [resp |-> ErrorResponse(url, EngineChrome, ErrChromeRun), err |-> TRUE]
    ELSE IF run.htmlLen > maxLen /\ SlicePanics(maxLen) THEN Panic
    ELSE [resp |-> [URL |-> url, Engine |-> EngineChrome, StatusCode |-> run.StatusCode,
                    Content |-> [raw |-> Truncate(run.htmlLen, maxLen)],
                    Format |-> "html", Warnings |-> <<>>, ChromeAvailable |-> TRUE],
          err |-> FALSE]

\* The URLs HTTPEngine.Fetch sends a request to: the URL itself, once
\* validateURL has admitted it.
HTTPContacts(url) == IF validateURL(url) = "" THEN {url} ELSE {}

\* The URLs ChromeEngine.Fetch navigates to: chromedp.Navigate(fetchURL).
ChromeContacts(url) == IF chromeAvailable THEN {url} ELSE {}

\* Apply defaults (in fetchURL and again in Fetcher.Fetch).
ApplyDefaults(req) ==
    [URL |-> req.URL,
     Engine |-> IF req.Engine = "" THEN DefaultEngine ELSE req.Engine,
     Format |-> IF req.Format = "" THEN DefaultFormat ELSE req.Format,
     MaxContentLength |-> IF req.MaxContentLength = 0 THEN DefaultMaxContentLength
                          ELSE req.MaxContentLength]

\* Mutant of FallbackWarnings: the notice is not appended.
FallbackWarningsNone(warnings) == warnings

\* response.Warnings = append(response.Warnings, "Chrome not available, ...")
FallbackWarnings(warnings) == Append(warnings, WarnFallback)

\* The fallback branch of Fetcher.Fetch, on the result of the HTTP engine.
Fallback(h) ==
    IF h.resp # NoResponse
    THEN [h EXCEPT !.resp = [h.resp EXCEPT !.Engine = EngineHTTP,
                                           !.Warnings = FallbackWarnings(@)]]
    ELSE h

\* Mutant of Dispatch: an engine name that is not known goes to the HTTP engine.
DispatchDefaultHTTP(engine) ==
    CASE engine = EngineChrome -> IF chromeAvailable THEN "chrome" ELSE "fallback"
      [] OTHER -> "http"

\* switch req.Engine in Fetcher.Fetch: the branch taken.
Dispatch(engine) ==
    CASE engine = EngineHTTP -> "http"
      [] engine = EngineChrome -> IF chromeAvailable THEN "chrome" ELSE "fallback"
      [] OTHER -> "unsupported"

\* Fetcher.Fetch: the response, the error, the request as Fetch leaves it
\* (req is a pointer: the engine name is lower-cased in place) and the
\* engines whose Fetch ran.
FetcherFetch(request, run) ==
    LET d == ApplyDefaults(request)
        req == [d EXCEPT !.Engine = ToLower(d.Engine)]
        h == HTTPFetch(req.URL, req.MaxContentLength, run.answers, run.bodyLen)
        c == ChromeFetch(req.URL, req.MaxContentLength, run)
        got == CASE Dispatch(req.Engine) = "http" ->
                      [resp |-> h.resp, err |-> h.err, ran |-> {EngineHTTP},
                       went |-> HTTPContacts(req.URL), panic |-> Panicked(h)]
                 [] Dispatch(req.Engine) = "fallback" ->
                      [resp |-> Fallback(h).resp, err |-> h.err, ran |-> {EngineHTTP},
                       went |-> HTTPContacts(req.URL), panic |-> Panicked(h)]
                 [] Dispatch(req.Engine) = "chrome" ->
                      [resp |-> c.resp, err |-> c.err, ran |-> {EngineChrome},
                       went |-> ChromeContacts(req.URL), panic |-> Panicked(c)]
                 [] OTHER -> [resp |-> NoResponse, err |-> TRUE, ran |-> {}, went |-> {},
                              panic |-> FALSE]
    IN  [resp |-> IF got.err THEN got.resp
                  ELSE [got.resp EXCEPT !.ChromeAvailable = chromeAvailable,
                                        !.Format = req.Format],
         err |-> got.err,
         errText |-> IF got.resp = NoResponse THEN "unsupported engine: " \o req.Engine
                     ELSE "",
         req |-> req,
         ran |-> got.ran,
         went |-> got.went,
         panic |-> got.panic]

\* Processor.Process: the content converted to response.Format, or an error
\* for a format that is none of text, html, markdown.
Process(response) ==
    IF response.Format \in {"text", "html", "markdown"}
    THEN [resp |-> [response EXCEPT !.Content = [as |-> response.Format, of |-> @]],
          err |-> FALSE]
    ELSE [resp |-> response, err |-> TRUE]

\* Mutant of Processed: on an error the warning replaces the earlier ones.
ProcessedAlone(resp) ==
    IF Process(resp).err
    THEN [Process(resp).resp EXCEPT !.Warnings = <<WarnProcessing>>]
    ELSE Process(resp).resp

\* The response after fetchURL's call of Process: on an error the warning is
\* appended and the response goes on as it is.
Processed(resp) ==
    IF Process(resp).err
    THEN [Process(resp).resp EXCEPT !.Warnings = Append(@, WarnProcessing)]
    ELSE Process(resp).resp

\* formatResponse: the key "warnings" is set only when there are warnings.
formatResponse(resp) ==
    LET fields == [url |-> resp.URL, engine |-> resp.Engine,
                   status_code |-> resp.StatusCode, content |-> resp.Content,
                   format |-> resp.Format, chrome_available |-> resp.ChromeAvailable]
    IN  IF Len(resp.Warnings) > 0
        THEN [k \in DOMAIN fields \cup {"warnings"} |->
                 IF k = "warnings" THEN resp.Warnings ELSE fields[k]]
        ELSE fields

\* formatErrorResponse
formatErrorResponse(url, error) == [url |-> url, error |-> error, status |-> "failed"]

\* Mutant of GetFound: the lookup always misses.
GetFoundNever(m, key) == FALSE

\* Cache.Get by one goroutine alone: whether it finds the response, and the
\* map it leaves (an expired entry is deleted).
GetFound(m, key) == ~CacheDisabled /\ key \in DOMAIN m /\ ~Expired(m[key])

AfterGet(m, key) ==
    IF ~CacheDisabled /\ key \in DOMAIN m /\ Expired(m[key]) THEN MapDelete(m, key) ELSE m

\* The handler did not return: the panic of the engine unwinds through it.
PanicResult == [panic |-> "slice bounds out of range"]

\* Mutant of Failed: the error of Fetcher.Fetch is not looked at.
FailedNever(f) == FALSE

\* if err != nil, on what Fetcher.Fetch returned.
Failed(f) == f.err

InitServiceWith(avail) ==
    /\ chromeAvailable \in avail
    /\ served = "none"
    /\ sreq = NoRequest
    /\ sout = NoResult
    /\ called = {}
    /\ contacted = {}
    /\ srun = NoRun

\* What the engine that handles the request can meet: the browser if the
\* request is for it and the host has one, the server otherwise.
RunsFor(params) ==
    IF ToLower(params.Engine) = EngineChrome /\ chromeAvailable THEN ChromeRuns
    ELSE ServerRuns

\* fetchURL, one request handled from its parameters to its result.
FetchURL(params, run) ==
    /\ served = "none"
    /\ sreq' = params
    /\ \E req \in {ApplyDefaults(params)} :
       \E key \in {generateKey(req.URL, req.Engine, req.Format)} :
          IF params.URL = ""
          THEN /\ sout' = [error |-> ErrURLRequired]
               /\ served' = "rejected"
               /\ called' = {}
               /\ contacted' = {}
               /\ srun' = NoRun
               /\ UNCHANGED entries
          ELSE IF GetFound(entries, key)
          THEN /\ sout' = formatResponse(entries[key].Response)
               /\ served' = "cache"
               /\ called' = {}
               /\ contacted' = {}
               /\ srun' = NoRun
               /\ UNCHANGED entries
          ELSE \E f \in {FetcherFetch(req, run)} :
                 /\ served' = "fetch"
                 /\ called' = f.ran
                 /\ contacted' = f.went
                 /\ srun' = IF f.ran = {} THEN NoRun ELSE run
                 /\ IF f.panic
                    THEN /\ sout' = PanicResult
                         /\ entries' = AfterGet(entries, key)
                    ELSE IF Failed(f)
                    THEN /\ sout' = IF f.resp # NoResponse THEN formatResponse(f.resp)
                                    ELSE formatErrorResponse(req.URL, f.errText)
                         /\ entries' = AfterGet(entries, key)
                    ELSE \E response \in {Processed(f.resp)} :
                           /\ sout' = formatResponse(response)
                           /\ entries' =
                                 AfterSet(AfterGet(entries, key),
                                          generateKey(f.req.URL, f.req.Engine, f.req.Format),
                                          response)
    /\ UNCHANGED <<chromeAvailable, ttl, cleanupRunning, now, cpc, getArgs, getEntry,
                   lastGet, lastSet, getSaw, lastOp>>
    /\ UNCHANGED notService

\* The caller of fetch_url has the result.
FetchURLReturn ==
    /\ served # "none"
    /\ served' = "none"
    /\ sreq' = NoRequest
    /\ sout' = NoResult
    /\ called' = {}
    /\ contacted' = {}
    /\ srun' = NoRun
    /\ UNCHANGED <<chromeAvailable, cacheVars>>
    /\ UNCHANGED notService

NextService ==
    \/ \E params \in Params : \E run \in RunsFor(params) : FetchURL(params, run)
    \/ FetchURLReturn
    \/ Sweep
    \/ Tick

(***************************************************************************)
(* Processor: cleanHTML and htmlToMarkdown over the parsed document        *)
(*                                                                         *)
(* A string is a sequence of one-character strings.  A document is the     *)
(* tree goquery.NewDocumentFromReader builds; the inputs are given by the  *)
(* children of its body element.  The readability extraction in front of   *)
(* htmlToMarkdown is a library call that is taken to fall back to the raw  *)
(* HTML (convertToMarkdown, second fallback).                              *)
(***************************************************************************)

MaxNodes == 2

NL == "\n"

TextNode(data) == [tag |-> "#text", attrs |-> <<>>, kids |-> <<>>, data |-> data]
Element(tag, attrs, kids) == [tag |-> tag, attrs |-> attrs, kids |-> kids, data |-> <<>>]
Attr(key, val) == [Key |-> key, Val |-> val]

\* The selector of doc.Find(...).Remove() in cleanHTML.
Unwanted == {"script", "style", "noscript", "iframe", "object", "embed", "applet"}

\* The elements the documents are made of.
Fragments ==
    { Element("h1", <<>>, <<TextNode(<<"A">>)>>),
      Element("p", <<>>, <<TextNode(<<"B", " ">>),
                           Element("strong", <<>>, <<TextNode(<<"C">>)>>)>>),
      Element("p", <<Attr("class", <<"x">>)>>, <<TextNode(<<"o", "k">>)>>),
      Element("a", <<Attr("href", <<"u">>), Attr("onclick", <<"x">>)>>,
              <<TextNode(<<"l">>)>>),
      Element("div", <<Attr("id", <<"d">>)>>,
              <<Element("script", <<>>, <<TextNode(<<"x">>)>>),
                Element("p", <<>>, <<TextNode(<<"o", "k">>)>>)>>),
      Element("ol", <<>>, <<Element("li", <<>>, <<TextNode(<<"i">>)>>)>>),
      Element("ul", <<>>, <<Element("li", <<>>, <<Element("em", <<>>, <<TextNode(<<"i">>)>>)>>)>>),
      Element("pre", <<>>, <<Element("code", <<>>, <<TextNode(<<"c">>)>>)>>),
      Element("blockquote", <<>>, <<TextNode(<<" ", "q", NL, "r">>)>>),
      Element("img", <<Attr("src", <<"s">>), Attr("alt", <<"t">>)>>, <<>>),
      Element("br", <<>>, <<>>),
      Element("hr", <<>>, <<>>),
      TextNode(<<" ", "T">>) }
        \cup { Element(t, <<Attr("src", <<"s">>)>>, <<TextNode(<<"x">>)>>) : t \in Unwanted }

RECURSIVE SeqsUpTo(_, _)
SeqsUpTo(S, n) ==
    IF n = 0 THEN {<<>>}
    ELSE SeqsUpTo(S, n - 1) \cup {Append(q, x) : q \in SeqsUpTo(S, n - 1), x \in S}

\* goquery.NewDocumentFromReader: the document with the given body.
Document(body) ==
    Element("html", <<>>, <<Element("head", <<>>, <<>>), Element("body", <<>>, body)>>)

Documents == {Document(body) : body \in SeqsUpTo(Fragments, MaxNodes) \ {<<>>}}

\* The formats whose conversion is modelled.
ConvertedFormats == {"html", "markdown"}

Inputs == [doc : Documents, format : ConvertedFormats]

\* doc.Find("script, style, ...").Remove(), on a sequence of sibling nodes.
RECURSIVE RemoveUnwanted(_)
RemoveUnwanted(nodes) ==
    IF nodes = <<>> THEN <<>>
    ELSE IF Head(nodes).tag \in Unwanted THEN RemoveUnwanted(Tail(nodes))
    ELSE <<[Head(nodes) EXCEPT !.kids = RemoveUnwanted(@)]>> \o RemoveUnwanted(Tail(nodes))

\* Mutant of KeptAttr: every attribute is kept.
KeptAttrAny(attr) == TRUE

\* attr.Key == "href" || attr.Key == "src"
KeptAttr(attr) == attr.Key = "href" \/ attr.Key = "src"

\* doc.Find("*").Each(...): the attributes of every element are filtered.
RECURSIVE StripAttrs(_)
StripAttrs(nodes) ==
    IF nodes = <<>> THEN <<>>
    ELSE <<[Head(nodes) EXCEPT !.attrs = SelectSeq(@, KeptAttr),
                               !.kids = StripAttrs(@)]>> \o StripAttrs(Tail(nodes))

\* The elements html.Render writes without an end tag.
VoidElements == {"br", "hr", "img", "embed"}

\* The double quote character.
DQ == "''"

RECURSIVE RenderAttrs(_)
RenderAttrs(attrs) ==
    IF attrs = <<>> THEN <<>>
    ELSE <<" ", Head(attrs).Key, "=", DQ>> \o Head(attrs).Val \o <<DQ>>
            \o RenderAttrs(Tail(attrs))

\* doc.Html(): the nodes written as HTML; a tag name and an attribute name
\* are one item of the sequence each.
RECURSIVE Html(_)
Html(nodes) ==
    IF nodes = <<>> THEN <<>>
    ELSE (IF Head(nodes).tag = "#text" THEN Head(nodes).data
          ELSE IF Head(nodes).tag \in VoidElements
          THEN <<"<", Head(nodes).tag>> \o RenderAttrs(Head(nodes).attrs) \o <<"/>">>
          ELSE <<"<", Head(nodes).tag>> \o RenderAttrs(Head(nodes).attrs) \o <<">">>
                  \o Html(Head(nodes).kids) \o <<"</", Head(nodes).tag, ">">>)
         \o Html(Tail(nodes))

\* Processor.cleanHTML
cleanHTML(doc) == Html(StripAttrs(RemoveUnwanted(<<doc>>)))

IsSpace(c) == c \in {" ", NL, "\t", "\r"}

RECURSIVE TrimLeft(_)
TrimLeft(str) ==
    IF str # <<>> /\ IsSpace(Head(str)) THEN TrimLeft(Tail(str)) ELSE str

RECURSIVE TrimRight(_)
TrimRight(str) ==
    IF str # <<>> /\ IsSpace(str[Len(str)]) THEN TrimRight(SubSeq(str, 1, Len(str) - 1))
    ELSE str

\* strings.TrimSpace
TrimSpace(str) == TrimRight(TrimLeft(str))

\* strings.ReplaceAll: the occurrences of old that do not overlap, from the
\* left, are replaced in one pass.
RECURSIVE ReplaceAll(_, _, _)
ReplaceAll(str, old, new) ==
    IF str = <<>> THEN <<>>
    ELSE IF Len(str) >= Len(old) /\ SubSeq(str, 1, Len(old)) = old
    THEN new \o ReplaceAll(SubSeq(str, Len(old) + 1, Len(str)), old, new)
    ELSE <<Head(str)>> \o ReplaceAll(Tail(str), old, new)

\* strings.Split(s, "\n")
RECURSIVE Split(_, _)
Split(str, line) ==
    IF str = <<>> THEN <<line>>
    ELSE IF Head(str) = NL THEN <<line>> \o Split(Tail(str), <<>>)
    ELSE Split(Tail(str), Append(line, Head(str)))

\* sel.Text(): the text of the nodes and their descendants.
RECURSIVE Text(_)
Text(nodes) ==
    IF nodes = <<>> THEN <<>>
    ELSE (IF Head(nodes).tag = "#text" THEN Head(nodes).data ELSE Text(Head(nodes).kids))
         \o Text(Tail(nodes))

\* sel.Attr(key): the value, or the empty string when there is none.
RECURSIVE AttrOf(_, _)
AttrOf(attrs, key) ==
    IF attrs = <<>> THEN <<>>
    ELSE IF Head(attrs).Key = key THEN Head(attrs).Val
    ELSE AttrOf(Tail(attrs), key)

\* The backtick character, which a TLA+ string cannot hold.
BQ == "~"

Headings == {"h1", "h2", "h3", "h4", "h5", "h6"}

Hashes(tag) ==
    CASE tag = "h1" -> <<"#">>
      [] tag = "h2" -> <<"#", "#">>
      [] tag = "h3" -> <<"#", "#", "#">>
      [] tag = "h4" -> <<"#", "#", "#", "#">>
      [] tag = "h5" -> <<"#", "#", "#", "#", "#">>
      [] tag = "h6" -> <<"#", "#", "#", "#", "#", "#">>

RECURSIVE Indent(_)
Indent(listDepth) == IF listDepth <= 0 THEN <<>> ELSE <<" ", " ">> \o Indent(listDepth - 1)

\* The blockquote branch: every line of the text that is not blank.
RECURSIVE Quoted(_)
Quoted(lines) ==
    IF lines = <<>> THEN <<>>
    ELSE (IF TrimSpace(Head(lines)) # <<>> THEN <<NL, ">", " ">> \o TrimSpace(Head(lines))
          ELSE <<>>)
         \o Quoted(Tail(lines))

\* Processor.processNode on the children nodes of an element parent: what is
\* written to the builder.
RECURSIVE processNode(_, _, _)
processNode(nodes, listDepth, parent) ==
    IF nodes = <<>> THEN <<>>
    ELSE LET n == Head(nodes) IN
         (CASE n.tag = "#text" -> TrimSpace(n.data)
            [] n.tag \in Headings ->
                  <<NL, NL>> \o Hashes(n.tag) \o <<" ">>
                     \o processNode(n.kids, listDepth, n.tag) \o <<NL, NL>>
            [] n.tag = "p" -> <<NL, NL>> \o processNode(n.kids, listDepth, n.tag) \o <<NL, NL>>
            [] n.tag = "br" -> <<NL>>
            [] n.tag \in {"strong", "b"} ->
                  <<"*", "*">> \o processNode(n.kids, listDepth, n.tag) \o <<"*", "*">>
            [] n.tag \in {"em", "i"} ->
                  <<"*">> \o processNode(n.kids, listDepth, n.tag) \o <<"*">>
            [] n.tag = "code" -> <<BQ>> \o processNode(n.kids, listDepth, n.tag) \o <<BQ>>
            [] n.tag = "pre" ->
                  <<NL, NL, BQ, BQ, BQ, NL>> \o processNode(n.kids, listDepth, n.tag)
                     \o <<NL, BQ, BQ, BQ, NL, NL>>
            [] n.tag = "a" ->
                  IF AttrOf(n.attrs, "href") # <<>>
                  THEN <<"[">> \o processNode(n.kids, listDepth, n.tag) \o <<"]", "(">>
                          \o AttrOf(n.attrs, "href") \o <<")">>
                  ELSE processNode(n.kids, listDepth, n.tag)
            [] n.tag \in {"ul", "ol"} -> <<NL>> \o processNode(n.kids, listDepth + 1, n.tag)
            [] n.tag = "li" ->
                  <<NL>> \o Indent(listDepth)
                     \o (IF parent = "ol" THEN <<"1", ".", " ">> ELSE <<"-", " ">>)
                     \o processNode(n.kids, listDepth, n.tag)
            [] n.tag = "blockquote" -> Quoted(Split(Text(n.kids), <<>>)) \o <<NL>>
            [] n.tag = "hr" -> <<NL, NL, "-", "-", "-", NL, NL>>
            [] n.tag = "img" ->
                  IF AttrOf(n.attrs, "src") # <<>>
                  THEN <<"!", "[">> \o AttrOf(n.attrs, "alt") \o <<"]", "(">>
                          \o AttrOf(n.attrs, "src") \o <<")">>
                  ELSE <<>>
            [] OTHER -> processNode(n.kids, listDepth, n.tag))
         \o processNode(Tail(nodes), listDepth, parent)

\* Processor.htmlToMarkdown
htmlToMarkdown(doc) ==
    TrimSpace(ReplaceAll(processNode(<<doc>>, 0, "#document"), <<NL, NL, NL>>, <<NL, NL>>))

InitProcessorWith(inputs) ==
    /\ ppc = "start"
    /\ pin \in inputs
    /\ pout = <<>>

\* Processor.Process on a response with format html or markdown: the switch
\* on response.Format.
Convert ==
    /\ ppc = "start"
    /\ pout' = CASE pin.format = "html" -> cleanHTML(pin.doc)
                 [] pin.format = "markdown" -> htmlToMarkdown(pin.doc)
    /\ ppc' = "done"
    /\ UNCHANGED pin
    /\ UNCHANGED notProcessor

NextProcessor == Convert

\* The input the other specifications leave untouched.
OneInput == [doc |-> Document(<<TextNode(<<"T">>)>>), format |-> "html"]

(***************************************************************************)
(* Cache.generateKey on the triples of fetchURL                            *)
(***************************************************************************)

\* What fetchURL hands to Cache.Get: params["url"], params["engine"] and
\* params["format"] as they came, after the defaults and before any check.
\* The second URL has a bar in its path (url.Parse accepts it); the third
\* format is not a supported one, and is cached all the same.
KeyURLs == {"https://example.com/a", "https://example.com/a|http"}
KeyEngines == {"http", "chrome"}
KeyFormats == {"text", "markdown", "http|text"}

KeyTriples == KeyURLs \X KeyEngines \X KeyFormats

\* The pair the other specifications leave untouched.
OneKeyPair == <<<<"https://example.com/a", "http", "text">>,
                <<"https://example.com/a", "chrome", "text">>>>

InitKeyWith(pairs) ==
    /\ kpc = "start"
    /\ kin \in pairs
    /\ kout = <<"", "">>

\* generateKey applied to both triples.
GenerateKeys ==
    /\ kpc = "start"
    /\ kout' = <<KeyOf(kin[1]), KeyOf(kin[2])>>
    /\ kpc' = "done"
    /\ UNCHANGED kin
    /\ UNCHANGED notKey

NextKey == GenerateKeys

(***************************************************************************)
(* waitForPageStability                                                    *)
(***************************************************************************)

\* Time is counted in periods of the ticker (100ms) from the start of the
\* call: tick k is handled at time k, and a network event falls between two
\* ticks: an event of the interval after tick j has lastNetworkActivity j,
\* and at tick k less than k - j periods have passed since.

\* networkIdleTime, 500ms
NetworkIdleTime == 5
\* domStableTime, 500ms
DomStableTime == 5
\* time.Sleep(200 * time.Millisecond)
GraceTime == 2
\* maxWait, 15s
MaxWait == 150
\* config.Timeout, 30s by default
Timeout == 300
\* The clock of the wait is not followed beyond this time.
WaitHorizon == MaxWait + GraceTime
\* What can be left of config.Timeout (1s to 300s) when the wait starts.
RemainingTimes == {3, 80, MaxWait, Timeout}

\* var lastNetworkActivity time.Time: the zero time, year 1.
ZeroTime == 0 - 1
NoTime == 0 - 2
\* now.Sub(u) saturates at the largest Duration when u is the zero time.
MaxDuration == 1000000
Sub(t, u) == IF u = ZeroTime THEN MaxDuration ELSE t - u

NoIdle == [at |-> NoTime, since |-> NoTime]

\* ctx.Done() is ready: the context was cancelled or its deadline has passed.
CtxDone == wcancelled \/ wnow >= wdeadline

InitWaitWith(remaining) ==
    /\ wpc = "wait"
    /\ wnow = 0
    /\ lastNetworkActivity = ZeroTime
    /\ networkIdle = FALSE
    /\ domStable = FALSE
    /\ wpending = NoTime
    /\ wdeadline \in remaining
    /\ wcancelled = FALSE
    /\ werr = "none"
    /\ widle = NoIdle

\* The listener of ListenTarget runs on the goroutine that delivers the
\* browser's events; its two writes are not synchronized with the loop.
\* EventBegin: an event arrives and the listener starts to write.
EventBegin ==
    /\ wpc \in {"wait", "grace"}
    /\ wpending = NoTime
    /\ wpending' = wnow
    /\ UNCHANGED <<wpc, wnow, lastNetworkActivity, networkIdle, domStable,
                   wdeadline, wcancelled, werr, widle>>
    /\ UNCHANGED notWait

\* EventEnd: lastNetworkActivity = time.Now(); networkIdle = false
EventEnd ==
    /\ wpending # NoTime
    /\ lastNetworkActivity' = wpending
    /\ networkIdle' = FALSE
    /\ wpending' = NoTime
    /\ UNCHANGED <<wpc, wnow, domStable, wdeadline, wcancelled, werr, widle>>
    /\ UNCHANGED notWait

\* The interval of the latest event that has arrived, or ZeroTime.
LatestEvent == IF wpending = NoTime THEN lastNetworkActivity ELSE wpending

\* What a read of lastNetworkActivity can yield: while the listener writes,
\* the old value or the new one.
Readable == {lastNetworkActivity} \cup (IF wpending = NoTime THEN {} ELSE {wpending})

\* Whether the listener's networkIdle = false can land between the two tests
\* of the loop.
Clearable == IF wpending = NoTime THEN {FALSE} ELSE BOOLEAN

\* Mutant of PastDeadline: the ceiling is never tested.
PastDeadlineNever(t) == FALSE

\* now.After(deadline), deadline being time.Now().Add(maxWait) taken before
\* the ticker was made: the tick MaxWait periods later is already past it.
PastDeadline(t) == t >= MaxWait

\* now.Sub(lastNetworkActivity) > networkIdleTime
IdleAfter(t, seen) == Sub(t, seen) > NetworkIdleTime

\* now.Sub(lastNetworkActivity) > domStableTime
StableAfter(t, seen) == Sub(t, seen) > DomStableTime

\* case <-ticker.C: one pass of the loop body at the next tick. The select
\* takes this case only if ctx.Done() was not ready before the tick. A write
\* of the listener can be under way at one tick, not from one tick to the
\* next: it takes far less than a period.
TickCase ==
    /\ wpc = "wait"
    /\ ~CtxDone
    /\ wpending \in {NoTime, wnow}
    /\ wnow < WaitHorizon
    /\ wnow' = wnow + 1
    /\ IF PastDeadline(wnow')
       THEN \* now.After(deadline): return nil
            /\ wpc' = "returned"
            /\ werr' = "nil"
            /\ UNCHANGED <<networkIdle, domStable, widle>>
       ELSE \E seen1 \in Readable, seen2 \in Readable, cleared \in Clearable :
              \E idle \in {(networkIdle \/ IdleAfter(wnow', seen1)) /\ ~cleared} :
              \E stable \in {domStable \/ (idle /\ StableAfter(wnow', seen2))} :
                /\ networkIdle' = idle
                /\ domStable' = stable
                /\ IF idle /\ stable
                   THEN /\ wpc' = "grace"
                        /\ widle' = [at |-> wnow', since |-> LatestEvent]
                   ELSE UNCHANGED <<wpc, widle>>
                /\ UNCHANGED werr
    /\ UNCHANGED <<lastNetworkActivity, wpending, wdeadline, wcancelled>>
    /\ UNCHANGED notWait

\* time.Sleep(200 * time.Millisecond); return nil
Grace ==
    /\ wpc = "grace"
    /\ wnow' = wnow + GraceTime
    /\ wpc' = "returned"
    /\ werr' = "nil"
    /\ UNCHANGED <<lastNetworkActivity, networkIdle, domStable, wpending,
                   wdeadline, wcancelled, widle>>
    /\ UNCHANGED notWait

\* case <-ctx.Done(): return ctx.Err()
DoneCase ==
    /\ wpc = "wait"
    /\ CtxDone
    /\ wpc' = "returned"
    /\ werr' = "ctx"
    /\ UNCHANGED <<wnow, lastNetworkActivity, networkIdle, domStable, wpending,
                   wdeadline, wcancelled, widle>>
    /\ UNCHANGED notWait

\* The context is cancelled from outside (the browser context of the pool).
Cancel ==
    /\ wpc \in {"wait", "grace"}
    /\ ~wcancelled
    /\ wcancelled' = TRUE
    /\ UNCHANGED <<wpc, wnow, lastNetworkActivity, networkIdle, domStable, wpending,
                   wdeadline, werr, widle>>
    /\ UNCHANGED notWait

NextWait ==
    \/ EventBegin
    \/ EventEnd
    \/ TickCase
    \/ Grace
    \/ DoneCase
    \/ Cancel

(***************************************************************************)
(* fetchURL and the FetchResponse objects it shares with the cache         *)
(***************************************************************************)

\* The handler, the fetcher, the processor and the cache pass a
\* *types.FetchResponse around: here each object has an address, the cache
\* entry and the handler's variables hold addresses, and every write of the
\* code is a write of the object at an address.

Handlers == {"h1", "h2"}
HandlerEngines == {EngineHTTP, EngineChrome}
HandlerKey(engine) == generateKey("u", engine, "text")
HandlerKeys == {HandlerKey(e) : e \in HandlerEngines}

Addrs == 0..(Cardinality(HandlerKeys) + Cardinality(Handlers) - 1)
NoAddr == 0 - 1

\* Mutant of Alloc: the engine hands out one and the same object every time.
AllocShared(o) == 0

\* &types.FetchResponse{...}: a fresh object, at an address nothing holds.
Alloc(o) == CHOOSE a \in Addrs : a \notin DOMAIN o /\ \A b \in Addrs : b < a => b \in DOMAIN o

\* The object an engine's Fetch returns: its response, or ErrorResponse.
EngineResponse(engine, ok) ==
    [Engine |-> engine, StatusCode |-> IF ok THEN 200 ELSE 0,
     Content |-> IF ok THEN "raw" ELSE "err", Format |-> "html",
     Warnings |-> 0, ChromeAvailable |-> ok /\ engine = EngineChrome]

\* The objects something still points to.
Collect(o, h, r) ==
    [a \in {a \in DOMAIN o : (\E k \in HandlerKeys : h[k] = a) \/ (\E x \in Handlers : r[x] = a)}
        |-> o[a]]

InitHandlers ==
    /\ objs = [a \in {} |-> 0]
    /\ held = [k \in HandlerKeys |-> NoAddr]
    /\ apc = [h \in Handlers |-> "idle"]
    /\ aref = [h \in Handlers |-> NoAddr]
    /\ areq = [h \in Handlers |-> ""]
    /\ aerr = [h \in Handlers |-> FALSE]

\* fetchURL up to the cache lookup: a hit goes to formatResponse(cached).
HandlerGet(h, engine) ==
    /\ apc[h] = "idle"
    /\ areq' = [areq EXCEPT ![h] = engine]
    /\ IF held[HandlerKey(engine)] # NoAddr
       THEN /\ aref' = [aref EXCEPT ![h] = held[HandlerKey(engine)]]
            /\ apc' = [apc EXCEPT ![h] = "format"]
       ELSE /\ apc' = [apc EXCEPT ![h] = "fetch"]
            /\ UNCHANGED aref
    /\ UNCHANGED <<objs, held, aerr>>
    /\ UNCHANGED notHandler

\* Fetcher.Fetch up to the return of the engine's Fetch: the engine makes
\* the object, and the fallback writes Engine and Warnings into it.
HandlerEngineFetch(h, ok) ==
    /\ apc[h] = "fetch"
    /\ \E a \in {Alloc(objs)} :
       \E fallback \in {areq[h] = EngineChrome /\ ~chromeAvailable} :
       \E made \in {EngineResponse(IF fallback THEN EngineHTTP ELSE areq[h], ok)} :
         /\ objs' = [b \in (DOMAIN objs) \cup {a} |->
                       IF b # a THEN objs[b]
                       ELSE IF fallback THEN [made EXCEPT !.Warnings = @ + 1]
                       ELSE made]
         /\ aref' = [aref EXCEPT ![h] = a]
    /\ aerr' = [aerr EXCEPT ![h] = ~ok]
    /\ apc' = [apc EXCEPT ![h] = "fetched"]
    /\ UNCHANGED <<held, areq>>
    /\ UNCHANGED notHandler

\* The rest of Fetcher.Fetch: with an error the response is returned as it
\* is; else ChromeAvailable and Format are written.
HandlerFetchReturn(h) ==
    /\ apc[h] = "fetched"
    /\ IF aerr[h]
       THEN /\ apc' = [apc EXCEPT ![h] = "format"]
            /\ UNCHANGED objs
       ELSE /\ objs' = [objs EXCEPT ![aref[h]].ChromeAvailable = chromeAvailable,
                                    ![aref[h]].Format = "text"]
            /\ apc' = [apc EXCEPT ![h] = "process"]
    /\ UNCHANGED <<held, aref, areq, aerr>>
    /\ UNCHANGED notHandler

\* s.processor.Process(response): the content is converted in place.
HandlerProcess(h) ==
    /\ apc[h] = "process"
    /\ objs' = [objs EXCEPT ![aref[h]].Content = "converted"]
    /\ apc' = [apc EXCEPT ![h] = "set"]
    /\ UNCHANGED <<held, aref, areq, aerr>>
    /\ UNCHANGED notHandler

\* s.cache.Set(req.URL, req.Engine, req.Format, response): the entry gets
\* the pointer. (req.Engine is lower-case here, and the fallback leaves it.)
HandlerSet(h) ==
    /\ apc[h] = "set"
    /\ held' = [held EXCEPT ![HandlerKey(areq[h])] = aref[h]]
    /\ objs' = Collect(objs, held', aref)
    /\ apc' = [apc EXCEPT ![h] = "format"]
    /\ UNCHANGED <<aref, areq, aerr>>
    /\ UNCHANGED notHandler

\* return s.formatResponse(...): the fields are read into a new map, and the
\* handler's pointer goes away.
HandlerFormat(h) ==
    /\ apc[h] = "format"
    /\ aref' = [aref EXCEPT ![h] = NoAddr]
    /\ objs' = Collect(objs, held, aref')
    /\ apc' = [apc EXCEPT ![h] = "idle"]
    /\ areq' = [areq EXCEPT ![h] = ""]
    /\ aerr' = [aerr EXCEPT ![h] = FALSE]
    /\ UNCHANGED held
    /\ UNCHANGED notHandler

\* The entry of a key expires and is removed (Get's eviction or the sweep).
HandlerExpire(k) ==
    /\ held[k] # NoAddr
    /\ held' = [held EXCEPT ![k] = NoAddr]
    /\ objs' = Collect(objs, held', aref)
    /\ UNCHANGED <<apc, aref, areq, aerr>>
    /\ UNCHANGED notHandler

NextHandler ==
    \/ \E h \in Handlers, e \in HandlerEngines : HandlerGet(h, e)
    \/ \E h \in Handlers, ok \in BOOLEAN : HandlerEngineFetch(h, ok)
    \/ \E h \in Handlers : HandlerFetchReturn(h)
    \/ \E h \in Handlers : HandlerProcess(h)
    \/ \E h \in Handlers : HandlerSet(h)
    \/ \E h \in Handlers : HandlerFormat(h)
    \/ \E k \in HandlerKeys : HandlerExpire(k)

(***************************************************************************)
(* Specifications                                                          *)
(***************************************************************************)

\* The cache is constructed with caching disabled or enabled.
InitCache == InitCacheWith({0, CacheTTL})

Init ==
    /\ InitPool /\ InitCacheWith({CacheTTL}) /\ InitHTTPWith({TRUE}) /\ InitServiceWith({TRUE})
    /\ InitProcessorWith({OneInput})
    /\ InitKeyWith({OneKeyPair}) /\ InitWaitWith({Timeout}) /\ InitHandlers

\* The browser pool under concurrent callers and shutdown.
Spec == Init /\ [][NextPool]_vars

\* The browser pool while the server runs (no shutdown), when every slot
\* holder finishes (chromedp.Run returns by the timeout at the latest and the
\* deferred send runs) and a goroutine blocked in the receive is not passed
\* over forever: the runtime queues the blocked receivers of a channel and
\* hands each send to the first of them.
NextPoolOpen ==
    \/ \E c \in Callers : FetchStep(c)
    \/ \E c \in Callers : DeadlineElapse(c)

InitForPoolFair ==
    /\ InitPool /\ InitCacheWith({CacheTTL}) /\ InitHTTPWith({TRUE}) /\ InitServiceWith({TRUE})
    /\ InitProcessorWith({OneInput})
    /\ InitKeyWith({OneKeyPair}) /\ InitWaitWith({Timeout}) /\ InitHandlers

SpecPoolFair ==
    /\ InitForPoolFair
    /\ [][NextPoolOpen]_vars
    /\ \A c \in Callers : WF_vars(Navigate(c))
    /\ \A c \in Callers : WF_vars(DeferredRelease(c))
    /\ \A c \in Callers : SF_vars(Acquire(c))

\* The cache under concurrent callers, the sweep and the clock.
InitForCache ==
    /\ InitPool /\ InitCache /\ InitHTTPWith({TRUE}) /\ InitServiceWith({TRUE})
    /\ InitProcessorWith({OneInput})
    /\ InitKeyWith({OneKeyPair}) /\ InitWaitWith({Timeout}) /\ InitHandlers

SpecCache == InitForCache /\ [][NextCache]_vars

\* The cache with a positive ttl, whose cleanup goroutine keeps running: its
\* ticker fires every minute for as long as the process lives, so a pass of
\* the sweep that has something to remove is not put off forever.
InitForCacheFair ==
    /\ InitPool /\ InitCacheWith({CacheTTL}) /\ InitHTTPWith({TRUE}) /\ InitServiceWith({TRUE})
    /\ InitProcessorWith({OneInput})
    /\ InitKeyWith({OneKeyPair}) /\ InitWaitWith({Timeout}) /\ InitHandlers

\* The sweep runs beside the writers of the map and one reader.
NextCacheFair ==
    \/ \E t \in CacheTriples, r \in Responses : Set(t, r)
    \/ \E t \in CacheTriples : Delete(t)
    \/ Clear
    \/ \E t \in CacheTriples : GetLookup("g1", t)
    \/ GetCheck("g1")
    \/ GetEvict("g1")
    \/ GetReturn("g1")
    \/ Sweep
    \/ Tick

SpecCacheFair == InitForCacheFair /\ [][NextCacheFair]_vars /\ WF_vars(Sweep)

\* One caller of HTTPEngine.Fetch against a server that answers as it likes.
InitForHTTP ==
    /\ InitPool /\ InitCacheWith({CacheTTL}) /\ InitHTTPWith(BOOLEAN) /\ InitServiceWith({TRUE})
    /\ InitProcessorWith({OneInput})
    /\ InitKeyWith({OneKeyPair}) /\ InitWaitWith({Timeout}) /\ InitHandlers

SpecHTTP == InitForHTTP /\ [][NextHTTP]_vars

\* The server handling fetch_url requests one after the other, on a host with
\* or without a browser, while the clock advances and the cleanup runs.
InitForService ==
    /\ InitPool /\ InitCacheWith({CacheTTL}) /\ InitHTTPWith({TRUE}) /\ InitServiceWith(BOOLEAN)
    /\ InitProcessorWith({OneInput})
    /\ InitKeyWith({OneKeyPair}) /\ InitWaitWith({Timeout}) /\ InitHandlers

SpecService == InitForService /\ [][NextService]_vars

\* One conversion of each document to each format.
InitForProcessor ==
    /\ InitPool /\ InitCacheWith({CacheTTL}) /\ InitHTTPWith({TRUE}) /\ InitServiceWith({TRUE})
    /\ InitProcessorWith(Inputs)
    /\ InitKeyWith({OneKeyPair}) /\ InitWaitWith({Timeout}) /\ InitHandlers

SpecProcessor == InitForProcessor /\ [][NextProcessor]_vars

\* Two concurrent fetch_url handlers, with and without a browser.
InitForHandler ==
    /\ InitPool /\ InitCacheWith({CacheTTL}) /\ InitHTTPWith({TRUE}) /\ InitServiceWith(BOOLEAN)
    /\ InitProcessorWith({OneInput})
    /\ InitKeyWith({OneKeyPair}) /\ InitWaitWith({Timeout}) /\ InitHandlers

SpecHandler == InitForHandler /\ [][NextHandler]_vars

\* generateKey on two triples of the handler.
InitForKey ==
    /\ InitPool /\ InitCacheWith({CacheTTL}) /\ InitHTTPWith({TRUE}) /\ InitServiceWith({TRUE})
    /\ InitProcessorWith({OneInput})
    /\ InitKeyWith(KeyTriples \X KeyTriples) /\ InitWaitWith({Timeout}) /\ InitHandlers

SpecKey == InitForKey /\ [][NextKey]_vars

\* One call of waitForPageStability. The ticker keeps firing, the Sleep
\* ends, a select with a ready case is taken, and the listener finishes the
\* write it has begun.
InitForWait ==
    /\ InitPool /\ InitCacheWith({CacheTTL}) /\ InitHTTPWith({TRUE}) /\ InitServiceWith({TRUE})
    /\ InitProcessorWith({OneInput})
    /\ InitKeyWith({OneKeyPair}) /\ InitWaitWith(RemainingTimes) /\ InitHandlers

SpecWait ==
    /\ InitForWait
    /\ [][NextWait]_vars
    /\ WF_vars(TickCase) /\ WF_vars(Grace) /\ WF_vars(DoneCase) /\ WF_vars(EventEnd)

(***************************************************************************)
(* Claims about the browser pool                                           *)
(***************************************************************************)

\* The callers past slot acquisition whose deferred release has not run.
InFlight == {c \in Callers : pc[c] \in {"navigate", "release"}}

\* The callers blocked in the receive from pool.available.
Waiting == {c \in Callers : pc[c] = "acquire"}

QueuedSlots == {available[i] : i \in 1..Len(available)}

\* C1: before shutdown at most PoolSize calls of Fetch are past slot
\* acquisition and not yet released, and while PoolSize calls are in flight
\* every other caller that reached the receive is blocked in it.
C1_AtMostPoolSizeInFlight ==
    ~closed =>
        /\ Cardinality(InFlight) <= PoolSize
        /\ Cardinality(InFlight) = PoolSize =>
               \A c \in Waiting : ~ENABLED FetchStep(c)

\* C1 witness: the pool is open, PoolSize fetches hold a slot and another
\* caller waits for a token.
C1_Witness ==
    /\ ~closed
    /\ Cardinality(InFlight) = PoolSize
    /\ Waiting # {}

\* C2: while the pool is open, once no fetch is in flight the availability
\* queue holds every one of the PoolSize tokens again, whichever way the
\* fetches ended (success, navigation error, timeout).
C2_AllSlotsReturned ==
    (~closed /\ InFlight = {}) =>
        /\ Len(available) = PoolSize
        /\ QueuedSlots = Slots

\* C2 witness: three fetches have ended, one on each exit path, nothing is in
\* flight and the tokens are back in another order than they were handed out.
C2_Witness ==
    /\ ~closed
    /\ InFlight = {}
    /\ \A o \in {"ok", "error", "timeout"} :
          \E c \in Callers : pc[c] = "done" /\ result[c] = o
    /\ available # newBrowserPool

\* C3 (as claimed): a caller waiting for a slot whose deadline has passed is
\* not blocked: it can stop waiting even though no slot was released.
C3_WaiterHonoursDeadline ==
    \A c \in Callers :
        (pc[c] = "acquire" /\ deadlinePassed[c]) => ENABLED FetchStep(c)

\* C4 (as claimed): after Close no fetch crashes and none is stuck: a fetch
\* that was waiting, acquiring or holding a slot can always go on, and ends
\* by returning an error response.
C4_ShutdownFailsCleanly ==
    closed =>
        \A c \in Callers :
            /\ pc[c] # "panicked"
            /\ pc[c] \in {"acquire", "navigate", "release"} => ENABLED FetchStep(c)

(***************************************************************************)
(* Claims about the cache                                                  *)
(***************************************************************************)

\* Every stored entry holds a cacheable response.
OnlyCacheableStored == \A k \in DOMAIN entries : Cacheable(entries[k].Response)

\* C5: no stored entry ever holds a response whose status code is 0 or >= 400,
\* and a Set of such a response leaves the entry map, hence Size, unchanged.
C5_ErrorResponsesNeverCached ==
    /\ []OnlyCacheableStored
    /\ [][lastOp' = "SetError" => entries' = entries]_vars

\* C5 witness: a Set of an error response has just been refused by a cache
\* that holds entries.
C5_Witness == lastOp = "SetError" /\ Size > 0 /\ OnlyCacheableStored

\* A Get of client cl returns in this step.
GetCompletes(cl) == cpc[cl] # "got" /\ cpc'[cl] = "got"

\* C6: with TTL > 0, when a Get returns for a triple whose latest cacheable
\* Set (not followed by a removal of the entry before the Get read the map)
\* was at time t with response r: it is a hit with r if the TTL has not yet
\* elapsed (now < t + ttl), and a miss if the TTL has elapsed (now > t + ttl).
C6_RoundTripWithinTTL ==
    [][\A cl \in Clients :
          (GetCompletes(cl) /\ getSaw'[cl] # NoEntry) =>
              /\ now < getSaw'[cl].at + ttl =>
                     lastGet'[cl] = Hit(getSaw'[cl].response)
              /\ now > getSaw'[cl].at + ttl => lastGet'[cl] = Miss]_vars

\* C6 witness: one Get has returned a hit with the response of a Set whose
\* TTL has not elapsed, another Get a miss for a Set whose TTL has elapsed.
C6_Witness ==
    \E c1, c2 \in Clients :
        /\ cpc[c1] = "got" /\ getSaw[c1] # NoEntry
        /\ now < getSaw[c1].at + ttl
        /\ lastGet[c1] = Hit(getSaw[c1].response)
        /\ cpc[c2] = "got" /\ getSaw[c2] # NoEntry
        /\ now > getSaw[c2].at + ttl
        /\ lastGet[c2] = Miss

\* C7: a cache constructed with TTL = 0 stays empty whatever is Set, every
\* Get returns a miss at once, and the cleanup goroutine is not started.
C7_ZeroTTLDisablesCache ==
    ttl = 0 =>
        /\ Size = 0
        /\ ~cleanupRunning
        /\ \A cl \in Clients : /\ cpc[cl] \in {"idle", "got"}
                               /\ lastGet[cl] \in {NoResult, Miss}

\* C7 witness: with TTL = 0 a cacheable response was Set and a Get has
\* returned a miss.
C7_Witness ==
    /\ ttl = 0
    /\ lastOp = "SetCacheable"
    /\ \E cl \in Clients : cpc[cl] = "got" /\ lastGet[cl] = Miss

(***************************************************************************)
(* Claims about the HTTP engine                                            *)
(***************************************************************************)

\* An attempt that ended in a transport error or a 5xx status.
EndedRetryable(o) == o.err \/ o.StatusCode >= 500

\* C9: one Fetch makes at most 3 request attempts; every attempt but the
\* last one made ended in a transport error or a 5xx status, and while the
\* loop goes on (another attempt will be made) so did the last one: a 4xx or
\* successful response ends the loop at once.
C9_AtMostThreeAttempts ==
    /\ Len(outcomes) <= 3
    /\ \A i \in 1..(Len(outcomes) - 1) : EndedRetryable(outcomes[i])
    /\ hpc = "attempt" =>
          /\ Len(outcomes) < 3
          /\ \A i \in 1..Len(outcomes) : EndedRetryable(outcomes[i])

\* C9 witness: a Fetch has returned after two attempts: the first ended in a
\* 5xx status and was retried, the second in a 4xx status and was not.
C9_Witness ==
    /\ hpc = "done"
    /\ Len(outcomes) = 2
    /\ outcomes[1] = Responded(500)
    /\ outcomes[2] = Responded(404)

AdvisesChrome(resp) == resp # NoResponse /\ resp.Content = [text |-> ErrServer]

\* C10: a Fetch whose 3 attempts all ended with a 5xx status returns a
\* non-nil error and an error response (status code 0) whose content advises
\* engine='chrome'; that response is never returned after fewer than 3
\* attempts.
C10_ServerErrorAdvisesChrome ==
    hpc = "done" =>
        /\ (Len(outcomes) = 3 /\ \A i \in 1..3 :
                ~outcomes[i].err /\ outcomes[i].StatusCode >= 500)
              => (herr /\ hresp.StatusCode = 0 /\ AdvisesChrome(hresp))
        /\ AdvisesChrome(hresp) => Len(outcomes) = 3

\* C10 witness: a Fetch has returned after three attempts that all ended with
\* status 500.
C10_Witness ==
    /\ hpc = "done"
    /\ outcomes = <<Responded(500), Responded(500), Responded(500)>>
    /\ AdvisesChrome(hresp)

(***************************************************************************)
(* Claims about the fetch_url handler                                      *)
(***************************************************************************)

HasWarning(out, w) ==
    "warnings" \in DOMAIN out /\ \E i \in 1..Len(out.warnings) : out.warnings[i] = w

\* C8: a request with engine "chrome" is answered by a response that reports
\* engine "http" if and only if the host has no browser (and "chrome" if and
\* only if it has one); without a browser the response, freshly fetched or
\* served from the cache, carries the fallback notice and the browser engine
\* has not run. (A call that panics returns no response.)
C8_ChromeFallbackToHTTP ==
    (served \in {"cache", "fetch"} /\ sreq.Engine = EngineChrome /\ sout # PanicResult) =>
        /\ "engine" \in DOMAIN sout
        /\ sout.engine = EngineHTTP <=> ~chromeAvailable
        /\ sout.engine = EngineChrome <=> chromeAvailable
        /\ ~chromeAvailable =>
              /\ HasWarning(sout, WarnFallback)
              /\ EngineChrome \notin called

\* C8 witness: on a host without a browser a request with engine "chrome" has
\* been served from the cache, with engine "http" and the fallback notice.
C8_Witness ==
    /\ ~chromeAvailable
    /\ served = "cache"
    /\ sreq.Engine = EngineChrome
    /\ sout.engine = EngineHTTP
    /\ sout.status_code = 200
    /\ HasWarning(sout, WarnFallback)

(***************************************************************************)
(* Claims about URL admission                                              *)
(***************************************************************************)

\* The URLs of URLTable with scheme http or https whose host is localhost, a
\* loopback address, a link-local address or an address of 10/8, 172.16/12,
\* 192.168/16, 169.254/16, fc00::/7 or fe80::/10.
LocalTargets ==
    {"http://localhost", "http://127.0.0.1", "http://127.8.9.1", "http://10.1.2.3",
     "http://172.31.255.1", "http://192.168.1.1", "http://169.254.169.254",
     "https://[::1]", "http://[fd12::1]", "http://[febf::1]"}

LocalBlocked(resp) == resp # NoResponse /\ resp.Content = [text |-> ErrLocalBlocked]

\* C11: a Fetch of a URL whose host is a local, private or link-local address
\* ends, with blockLocal = true, in the local-address-blocked error without
\* any request attempt; with blockLocal = false it passes admission: request
\* attempts are made and the error never is the blocked one.
C11_LocalTargetsBlocked ==
    (hpc # "idle" /\ hreq.url \in LocalTargets) =>
        IF blockLocal
        THEN hpc = "done" /\ herr /\ LocalBlocked(hresp) /\ outcomes = <<>>
        ELSE /\ ~LocalBlocked(hresp)
             /\ hpc = "done" => Len(outcomes) >= 1

\* C11 witness: with blockLocal = true a Fetch of an address of 172.16/12 has
\* been refused.
C11_Witness ==
    /\ blockLocal
    /\ hpc = "done"
    /\ hreq.url = "http://172.31.255.1"
    /\ LocalBlocked(hresp)

\* The URLs of URLTable whose scheme is neither http nor https.
OtherSchemeURLs == {"ftp://example.com", "file:///etc/passwd", "example.com/page"}

\* C13: whatever blockLocal is, a Fetch of a URL whose scheme is not http or
\* https returns, without any request attempt, a non-nil error and an error
\* response with status code 0 that names the unsupported scheme.
C13_OtherSchemesRejected ==
    (hpc # "idle" /\ hreq.url \in OtherSchemeURLs) =>
        /\ hpc = "done"
        /\ outcomes = <<>>
        /\ herr
        /\ hresp.StatusCode = 0
        /\ hresp.Content = [text |-> ErrUnsupportedScheme]

\* C13 witness: with blockLocal = false a Fetch of a scheme-less string has
\* been rejected.
C13_Witness ==
    /\ ~blockLocal
    /\ hpc = "done"
    /\ hreq.url = "example.com/page"
    /\ hresp.StatusCode = 0
    /\ outcomes = <<>>

\* C12 (as claimed): with blockLocal = true no fetch_url call, whichever
\* engine handles it, sends a request or navigates to a URL whose scheme is
\* not http or https or whose host is a local, private or link-local address.
C12_NoLocalTargetContacted ==
    blockLocal =>
        \A url \in contacted : url \notin LocalTargets /\ url \notin OtherSchemeURLs

(***************************************************************************)
(* Claims about the body limit and the redirects of the HTTP engine        *)
(***************************************************************************)

\* Fetch has returned after the loop kept a response with a status < 400,
\* whose body readResponseBody then read.
BodyWasRead ==
    /\ hpc = "done"
    /\ Len(outcomes) >= 1
    /\ ~outcomes[Len(outcomes)].err
    /\ outcomes[Len(outcomes)].StatusCode < 400

TooLarge(resp) == resp.Content = [text |-> ErrTooLarge]

\* C14 (as claimed): when the body read is longer than maxLen, Fetch returns
\* the too-large error and a response whose content is the body cut to
\* exactly maxLen bytes.
C14_TruncatedBodyAttached ==
    (BodyWasRead /\ hbody > hreq.maxLen) =>
        /\ herr
        /\ hresp.Content = [raw |-> hreq.maxLen]

\* C15: a Fetch never returns a non-error response whose raw content is
\* longer than maxLen; for a body longer than maxLen it returns either the
\* too-large error or content of at most maxLen bytes.
C15_ContentNeverOverLimit ==
    hpc = "done" =>
        /\ ~herr => hresp.Content.raw <= hreq.maxLen
        /\ (BodyWasRead /\ hbody > hreq.maxLen) =>
              \/ herr /\ TooLarge(hresp)
              \/ ~herr /\ hresp.Content.raw <= hreq.maxLen

\* C15 witness: a body one byte longer than maxLen was answered with the
\* too-large error.
C15_Witness ==
    /\ BodyWasRead
    /\ hbody = hreq.maxLen + 1
    /\ herr
    /\ TooLarge(hresp)

\* C17 (as claimed): an attempt answered by up to 5 consecutive redirects
\* reaches the final target and ends as that target answers; only with a 6th
\* redirect does it end in the too-many-redirects error.
C17_FiveRedirectsFollowed ==
    (hpc # "idle" /\ Len(outcomes) >= 1) =>
        /\ hchain.hops <= 5 => outcomes[Len(outcomes)] = hchain.final
        /\ hchain.hops >= 6 => outcomes[Len(outcomes)] = TransportError

(***************************************************************************)
(* Claims about the browser's truncation, the engine names and the formats *)
(***************************************************************************)

SupportedFormats == {"text", "html", "markdown"}

\* The request of fetch_url as fetchURL hands it to Fetcher.Fetch.
Handed == ApplyDefaults(sreq)

\* The latest request was handled by ChromeEngine.Fetch, which returned
\* without an error.
ChromeSucceeded ==
    /\ served = "fetch"
    /\ called = {EngineChrome}
    /\ ~srun.err
    /\ sout # PanicResult

\* The engine's content in a result of fetch_url, converted or not.
RawOf(content) == IF "of" \in DOMAIN content THEN content.of ELSE content

\* C16: a successful browser fetch returns, without an error and without a
\* warning, the first maxLen bytes of a document longer than maxLen and the
\* whole of a document that is not longer.
C16_BrowserTruncatesSilently ==
    ChromeSucceeded =>
        /\ "error" \notin DOMAIN sout
        /\ Handed.Format \in SupportedFormats => "warnings" \notin DOMAIN sout
        /\ RawOf(sout.content) =
              [raw |-> IF srun.htmlLen > Handed.MaxContentLength
                       THEN Handed.MaxContentLength ELSE srun.htmlLen]

\* C16 witness: a document longer than maxLen came back cut to maxLen, with
\* no warning.
C16_Witness ==
    /\ ChromeSucceeded
    /\ srun.htmlLen > Handed.MaxContentLength
    /\ "warnings" \notin DOMAIN sout
    /\ RawOf(sout.content) = [raw |-> Handed.MaxContentLength]

\* The engine name of the request, lower-cased, is neither http nor chrome.
UnsupportedEngine(params) ==
    /\ params # NoRequest
    /\ params.URL # ""
    /\ ToLower(ApplyDefaults(params).Engine) \notin {EngineHTTP, EngineChrome}

\* C18: a request whose lower-cased engine name is neither http nor chrome
\* fails with the unsupported-engine error; no engine runs (so no pool slot
\* is taken), no URL is contacted and the cache is left as it was.
C18_UnsupportedEngineFails ==
    [][(served = "none" /\ served' # "none" /\ UnsupportedEngine(sreq')) =>
          /\ sout' = formatErrorResponse(sreq'.URL,
                        "unsupported engine: " \o ToLower(sreq'.Engine))
          /\ called' = {}
          /\ contacted' = {}
          /\ entries' = entries]_vars

\* C18 witness: engine "curl" was answered with the unsupported-engine error.
C18_Witness ==
    /\ served = "fetch"
    /\ sreq.Engine = "curl"
    /\ sout.error = "unsupported engine: curl"
    /\ called = {}

\* C19 (as claimed): a request whose format is none of text, html, markdown
\* fails with an error before any engine runs or any URL is contacted, and
\* its response is not cached.
C19_UnsupportedFormatFailsFirst ==
    (served # "none" /\ sreq.URL # "" /\ Handed.Format \notin SupportedFormats) =>
        /\ "error" \in DOMAIN sout
        /\ called = {}
        /\ contacted = {}
        /\ served # "cache"

\* What Fetcher.Fetch returned for the latest request, an engine having run.
Fetched == FetcherFetch(Handed, srun)

\* C20: when the engine's fetch succeeded and the conversion fails, the
\* caller gets the success-shaped result with the engine's raw content and
\* one conversion warning after the earlier warnings.
C20_ConversionErrorIsWarning ==
    (served = "fetch" /\ called # {} /\ ~Fetched.err /\ Process(Fetched.resp).err) =>
        /\ "error" \notin DOMAIN sout
        /\ sout.status_code = Fetched.resp.StatusCode
        /\ sout.content = Fetched.resp.Content
        /\ "raw" \in DOMAIN sout.content
        /\ sout.warnings = Append(Fetched.resp.Warnings, WarnProcessing)

\* C20 witness: a request for the browser with format pdf, on a host without
\* a browser, got the raw content with the fallback notice and then the
\* conversion warning.
C20_Witness ==
    /\ served = "fetch"
    /\ sreq.Format = "pdf"
    /\ called = {EngineHTTP}
    /\ "error" \notin DOMAIN sout
    /\ "raw" \in DOMAIN sout.content
    /\ sout.warnings = <<WarnFallback, WarnProcessing>>

(***************************************************************************)
(* Claims about the handler: errors, cache hits, keys and result shapes    *)
(***************************************************************************)

\* The key fetchURL looks the cache up with: the request after the defaults,
\* the engine name as it was given.
LookupKey(params) ==
    generateKey(ApplyDefaults(params).URL, ApplyDefaults(params).Engine,
                ApplyDefaults(params).Format)

\* The key of the normalized request: defaults applied, engine lower-cased.
NormalizedKey(params) ==
    generateKey(ApplyDefaults(params).URL, ToLower(ApplyDefaults(params).Engine),
                ApplyDefaults(params).Format)

\* The map m holds an entry under key that has not expired.
Fresh(m, key) == ttl > 0 /\ key \in DOMAIN m /\ now <= m[key].ExpiresAt

\* A step in which fetch_url handles a request with a url.
Handles == served = "none" /\ served' # "none" /\ sreq'.URL # ""

\* C21: when the engine that was selected returns an error, fetch_url returns
\* the engine's error response and no entry of the cache is added or
\* replaced.
C21_EngineErrorNotCached ==
    [][(Handles /\ served' = "fetch" /\ called' # {} /\ sout' # PanicResult) =>
          \E f \in {FetcherFetch(ApplyDefaults(sreq'), srun')} :
             f.err =>
                /\ sout' = formatResponse(f.resp)
                /\ \A k \in DOMAIN entries' :
                      k \in DOMAIN entries /\ entries'[k] = entries[k]]_vars

\* C21 witness: an engine's error response was returned while the cache
\* holds an entry.
C21_Witness ==
    /\ served = "fetch"
    /\ called # {}
    /\ sout # PanicResult
    /\ Fetched.err
    /\ sout = formatResponse(Fetched.resp)
    /\ sout.status_code = 0
    /\ entries # EmptyMap

\* C22: when the cache holds an entry that has not expired under the
\* request's (url, engine, format), fetch_url returns the cached response;
\* no engine runs, no URL is contacted and the cache stays as it is.
C22_HitReturnsCached ==
    [][(Handles /\ Fresh(entries, LookupKey(sreq'))) =>
          /\ served' = "cache"
          /\ sout' = formatResponse(entries[LookupKey(sreq')].Response)
          /\ called' = {}
          /\ contacted' = {}
          /\ entries' = entries]_vars

\* C22 witness: a request was served from the cache and no engine ran.
C22_Witness ==
    /\ served = "cache"
    /\ Fresh(entries, LookupKey(sreq))
    /\ sout = formatResponse(entries[LookupKey(sreq)].Response)
    /\ called = {}

\* C23 (as claimed): the lookup uses the normalized request, so a request
\* whose normalized (url, engine, format) has an entry that has not expired
\* is served from the cache, whatever the letter case of its engine name.
C23_LookupKeyIsStoreKey ==
    [][(Handles /\ Fresh(entries, NormalizedKey(sreq'))) => served' = "cache"]_vars

\* C24 (as claimed): in every response returned to the caller
\* chrome_available is the result of the availability probe.
C24_ChromeAvailableIsProbe ==
    (served # "none" /\ "chrome_available" \in DOMAIN sout) =>
        sout.chrome_available = chromeAvailable

\* The latest request failed: no engine was selected, or the one that ran
\* returned an error.
FetchFailed ==
    /\ served = "fetch"
    /\ sout # PanicResult
    /\ called = {} \/ Fetched.err

\* C26 (as claimed): every failed fetch_url call has the output
\* {url, error, status: "failed"}, and the shape with status_code and content
\* is produced only for successful fetches.
C26_FailureShape ==
    FetchFailed =>
        /\ DOMAIN sout = {"url", "error", "status"}
        /\ sout.status = "failed"

\* C27 (as claimed): an engine is only called with a positive
\* maxContentLength, and no engine slices content at a negative index.
C27_LimitPositiveAtEngine ==
    (served = "fetch" /\ called # {}) =>
        /\ Handed.MaxContentLength > 0
        /\ sout # PanicResult

\* C25 (as claimed): when the server answered the last attempt with an HTTP
\* status, the response of HTTPEngine.Fetch has that status and not 0.
C25_StatusZeroOnlyTransport ==
    (hpc = "done" /\ Len(outcomes) >= 1 /\ ~outcomes[Len(outcomes)].err) =>
        /\ hresp.StatusCode = outcomes[Len(outcomes)].StatusCode
        /\ hresp.StatusCode # 0

(***************************************************************************)
(* Claims about the conversions                                            *)
(***************************************************************************)

\* The sequence sub occurs in str as a run of consecutive items.
HasRun(str, sub) ==
    \E i \in 0..(Len(str) - Len(sub)) : SubSeq(str, i + 1, i + Len(sub)) = sub

\* The names of the start tags in HTML output, in their order.
RECURSIVE StartTags(_)
StartTags(out) ==
    IF Len(out) < 2 THEN <<>>
    ELSE IF Head(out) = "<" THEN <<out[2]>> \o StartTags(Tail(Tail(out)))
    ELSE StartTags(Tail(out))

\* The names of the elements of a tree that lie in no unwanted subtree, in
\* document order.
RECURSIVE WantedElements(_)
WantedElements(nodes) ==
    IF nodes = <<>> THEN <<>>
    ELSE (IF Head(nodes).tag = "#text" \/ Head(nodes).tag \in Unwanted THEN <<>>
          ELSE <<Head(nodes).tag>> \o WantedElements(Head(nodes).kids))
         \o WantedElements(Tail(nodes))

ParagraphOk == <<"<", "p", ">", "o", "k", "</", "p", ">">>

\* C28: the output of the HTML conversion has no script, style, noscript,
\* iframe, object, embed or applet element, no attribute other than href and
\* src, and every other element of the input, in document order.
C28_CleanHTMLStrips ==
    (ppc = "done" /\ pin.format = "html") =>
        /\ \A i \in 1..(Len(pout) - 1) : pout[i] = "<" => pout[i + 1] \notin Unwanted
        /\ \A i \in 2..Len(pout) : pout[i] = "=" => pout[i - 1] \in {"href", "src"}
        /\ StartTags(pout) = WantedElements(<<pin.doc>>)

\* C28 witness: a document with a script element and a paragraph with a
\* class attribute was converted, and the paragraph is in the output.
C28_Witness ==
    /\ ppc = "done"
    /\ pin.format = "html"
    /\ \E i \in 1..Len(pin.doc.kids[2].kids) : pin.doc.kids[2].kids[i].tag = "script"
    /\ \E i \in 1..Len(pin.doc.kids[2].kids) :
          /\ pin.doc.kids[2].kids[i].tag = "p"
          /\ pin.doc.kids[2].kids[i].attrs # <<>>
    /\ HasRun(pout, ParagraphOk)
    /\ ~HasRun(pout, <<"script">>)

\* <h1>A</h1><p>B <strong>C</strong></p>
HeadingAndParagraph ==
    Document(<<Element("h1", <<>>, <<TextNode(<<"A">>)>>),
               Element("p", <<>>, <<TextNode(<<"B", " ">>),
                                    Element("strong", <<>>, <<TextNode(<<"C">>)>>)>>)>>)

\* C29 (as claimed): the Markdown of <h1>A</h1><p>B <strong>C</strong></p>
\* contains "# A" and "B **C**", and a blank line follows the heading.
C29_MarkdownKeepsInlineSpace ==
    (ppc = "done" /\ pin = [doc |-> HeadingAndParagraph, format |-> "markdown"]) =>
        /\ HasRun(pout, <<"#", " ", "A">>)
        /\ HasRun(pout, <<"B", " ", "*", "*", "C", "*", "*">>)
        /\ HasRun(pout, <<"A", NL, NL>>)

\* C30 (as claimed): the Markdown output has no run of three or more
\* newlines and neither starts nor ends with whitespace.
C30_NoThreeNewlines ==
    (ppc = "done" /\ pin.format = "markdown") =>
        /\ ~HasRun(pout, <<NL, NL, NL>>)
        /\ pout # <<>> => ~IsSpace(pout[1]) /\ ~IsSpace(pout[Len(pout)])

(***************************************************************************)
(* Claims about slot ownership and waiting in the browser pool             *)
(***************************************************************************)

\* C31: before shutdown no slot index is held by two fetches at once, no
\* index is in the availability queue twice or both queued and held, and the
\* tokens in the queue plus the slots checked out are PoolSize.
C31_SlotOwnershipExclusive ==
    ~closed =>
        /\ \A c1, c2 \in InFlight : c1 # c2 => instanceID[c1] # instanceID[c2]
        /\ \A i, j \in 1..Len(available) : i # j => available[i] # available[j]
        /\ \A c \in InFlight : instanceID[c] \in Slots \ QueuedSlots
        /\ Len(available) + Cardinality(InFlight) = PoolSize

\* C31 witness: the pool is open and two fetches hold a slot each.
C31_Witness ==
    /\ ~closed
    /\ \E c1, c2 \in InFlight : c1 # c2 /\ instanceID[c1] # instanceID[c2]

\* C32: when the slot holders finish and the scheduling is fair, every fetch
\* that waits for a slot eventually obtains one.
C32_WaiterEventuallyServed ==
    \A c \in Callers : (pc[c] = "acquire") ~> (pc[c] = "navigate")

\* C32 witness: a fetch waits while the queue is empty and the pool is open,
\* and another fetch is about to give its slot back.
C32_Witness ==
    /\ ~closed
    /\ available = <<>>
    /\ \E c1, c2 \in Callers : pc[c1] = "acquire" /\ pc[c2] = "release"

\* C33: a Get that finds the entry it read expired goes on to the eviction
\* and not to a hit; its eviction leaves the key out of the map, takes one off
\* Size when the key was still stored, keeps the other keys and answers a
\* miss; a Get answers a hit only with an entry that is not expired when it
\* is tested. No step of the sweep is needed for it.
C33_ExpiredReadEvicts ==
    [][\A cl \in Clients :
          /\ (cpc[cl] = "check" /\ cpc'[cl] # "check") =>
                 IF Expired(getEntry[cl])
                 THEN cpc'[cl] = "evict" /\ lastGet'[cl] = NoResult
                 ELSE cpc'[cl] = "got" /\ lastGet'[cl] = Hit(getEntry[cl].Response)
          /\ (cpc[cl] = "evict" /\ cpc'[cl] # "evict") =>
                 /\ lastGet'[cl] = Miss
                 /\ KeyOf(getArgs[cl]) \notin DOMAIN entries'
                 /\ KeyOf(getArgs[cl]) \in DOMAIN entries => Size' = Size - 1
                 /\ \A k \in (DOMAIN entries) \ {KeyOf(getArgs[cl])} :
                        k \in DOMAIN entries' /\ entries'[k] = entries[k]]_vars

\* C33 witness: a Get has just evicted the expired entry it read and holds a
\* miss, while the sweep has not run and another entry is still stored.
C33_Witness ==
    /\ lastOp = "GetEvict"
    /\ Size = 1
    /\ \E cl \in Clients : cpc[cl] = "got" /\ lastGet[cl] = Miss /\ getSaw[cl] # NoEntry

\* C34: with a positive ttl a pass of the sweep (the one step that takes
\* entries out and leaves the record of the Sets alone) removes exactly the
\* entries whose ExpiresAt has passed and keeps the others as they are, and
\* an entry that has expired is eventually out of the map (removed, or
\* replaced by a later Set) without any Get of its key.
C34_SweepRemovesExpired ==
    /\ [][(lastSet' = lastSet /\ (DOMAIN entries) \ (DOMAIN entries') # {}) =>
             /\ DOMAIN entries' = {k \in DOMAIN entries : ~(now > entries[k].ExpiresAt)}
             /\ \A k \in DOMAIN entries' : entries'[k] = entries[k]]_vars
    /\ \A t \in CacheTriples :
          (KeyOf(t) \in DOMAIN entries /\ now > entries[KeyOf(t)].ExpiresAt)
              ~> (KeyOf(t) \notin DOMAIN entries \/ now <= entries[KeyOf(t)].ExpiresAt)

\* C34 witness: a pass of the sweep has taken out an expired entry that no
\* Get had evicted, and an entry that is still live is in the map.
C34_Witness ==
    /\ lastOp = "other"
    /\ \E t1, t2 \in CacheTriples :
          /\ lastSet[t1] # NoEntry /\ now > lastSet[t1].at + ttl
          /\ KeyOf(t1) \notin DOMAIN entries
          /\ KeyOf(t2) \in DOMAIN entries /\ now <= entries[KeyOf(t2)].ExpiresAt

\* C35 (as claimed): the eviction of a Get never takes out an entry that is
\* not expired: an entry stored by a concurrent Set between the Get's read of
\* an expired entry and its eviction is still in the map after the eviction.
C35_GetKeepsFreshEntry ==
    [][\A cl \in Clients :
          (/\ cpc[cl] = "evict" /\ cpc'[cl] # "evict"
           /\ KeyOf(getArgs[cl]) \in DOMAIN entries
           /\ now <= entries[KeyOf(getArgs[cl])].ExpiresAt) =>
              /\ KeyOf(getArgs[cl]) \in DOMAIN entries'
              /\ entries'[KeyOf(getArgs[cl])] = entries[KeyOf(getArgs[cl])]]_vars

(***************************************************************************)
(* Claims about the cache key                                              *)
(***************************************************************************)

\* C36 (as claimed): two (url, engine, format) triples that differ never get
\* the same key, also when a url or a format holds a bar.
C36_KeyDistinctPerTriple ==
    (kpc = "done" /\ kin[1] # kin[2]) => kout[1] # kout[2]

(***************************************************************************)
(* Claims about the stored response objects                                *)
(***************************************************************************)

\* C37: while an entry points to a response object, no step of a handler
\* (engine fetch, fallback, conversion, formatting of a hit or of a fresh
\* response) changes a field of that object; what a key's entry holds
\* changes only when a handler's Set puts another object there.
C37_StoredResponseImmutable ==
    [][\A k \in HandlerKeys :
          held[k] # NoAddr =>
              /\ held'[k] = held[k] => objs'[held[k]] = objs[held[k]]
              /\ held'[k] \notin {held[k], NoAddr} =>
                     \E h \in Handlers :
                         /\ apc[h] = "set" /\ HandlerKey(areq[h]) = k
                         /\ held'[k] = aref[h] /\ objs'[held'[k]] = objs[aref[h]]]_vars

\* C37 witness: one handler formats the stored object of a key it hit, a
\* fallback response with its warning, while another handler has fetched an
\* object of its own for the same key and is about to convert it.
C37_Witness ==
    \E k \in HandlerKeys, h1, h2 \in Handlers :
        /\ held[k] # NoAddr /\ objs[held[k]].Warnings > 0
        /\ apc[h1] = "format" /\ aref[h1] = held[k]
        /\ apc[h2] = "process" /\ HandlerKey(areq[h2]) = k /\ aref[h2] # held[k]

(***************************************************************************)
(* Claims about the settle wait                                            *)
(***************************************************************************)

\* The least number of whole periods that had passed, when the loop declared
\* the page idle, since the latest event (an event lies inside its interval)
\* or, with no event at all, since the wait started.
QuietBeforeIdle ==
    IF widle.since = ZeroTime THEN widle.at ELSE widle.at - widle.since - 1

\* C38 (as claimed): the loop declares the page idle, and goes on to return
\* before the ceiling, only when at least 500ms have passed without a network
\* event since the latest event or, with no event at all, since the wait
\* started.
C38_IdleOnlyAfterQuietTime ==
    widle # NoIdle => QuietBeforeIdle >= NetworkIdleTime

\* C39 (as claimed): after a network event the loop returns before the
\* ceiling only when at least 500ms + 500ms have passed since the latest
\* event, and then 200ms later.
C39_StableOnlyAfterIdlePlusDom ==
    (widle # NoIdle /\ widle.since # ZeroTime) =>
        /\ QuietBeforeIdle >= NetworkIdleTime + DomStableTime
        /\ wpc = "returned" => wnow = widle.at + GraceTime

\* C40: the wait always returns; it is never still waiting at the first tick
\* past the 15s ceiling; with network events all along it returns nil at
\* that tick, also when the context's deadline is later; and it returns an
\* error only when the context is done.
C40_WaitTerminates ==
    /\ <>(wpc = "returned")
    /\ [](wpc = "wait" => wnow < MaxWait)
    /\ []((wpc = "returned" /\ werr = "nil" /\ widle = NoIdle) => wnow = MaxWait)
    /\ []((wpc = "returned" /\ werr = "ctx") => CtxDone)
    /\ []((wpc = "returned" /\ ~CtxDone) => werr = "nil")

\* C40 witness: with an event in each of the last intervals the wait has
\* returned nil at the tick of the ceiling, half way to the outer deadline.
C40_Witness ==
    /\ wpc = "returned" /\ werr = "nil" /\ widle = NoIdle
    /\ wnow = MaxWait /\ wdeadline = Timeout /\ ~wcancelled
    /\ lastNetworkActivity >= MaxWait - NetworkIdleTime

=============================================================================
